---------------------------- MODULE Spec2Model ----------------------------
(***************************************************************************)
(* A model of the termal terminal emulator: the escape-sequence parser     *)
(* (src/src/escape/mod.rs), its UTF-8 decoder (src/src/escape/utf8.rs) and *)
(* the screen model with its dispatcher (src/src/terminal/mod.rs).         *)
(*                                                                         *)
(* Bytes and codepoints are naturals.  The parser and the screen are       *)
(* records; every method of the source is an operator from the record      *)
(* before the call to the record after it.  A Rust panic (an index out of  *)
(* range, an unwrap of None) is recorded in the field "panic" of the       *)
(* record; a panicked program takes no further step.                       *)
(***************************************************************************)
EXTENDS Integers, Sequences, FiniteSets, TLC

VARIABLES parser, screen, input, fed, last, probe

vars == <<parser, screen, input, fed, last, probe>>

(***************************************************************************)
(* Program constants                                                       *)
(***************************************************************************)
MAX_INTERMEDIATES == 2
MAX_CSI == 128
OSC_LEN == 1024
U16_MAX == 65535
CELL_WIDTH == 10
CELL_HEIGHT == 20

ESC == 27

(***************************************************************************)
(* Bit operations on naturals, as the decoder uses them                    *)
(***************************************************************************)
RECURSIVE BitOr(_, _)
BitOr(a, b) ==
    IF a = 0 THEN b
    ELSE IF b = 0 THEN a
    ELSE (IF (a % 2 = 1) \/ (b % 2 = 1) THEN 1 ELSE 0) + 2 * BitOr(a \div 2, b \div 2)

RECURSIVE BitAnd(_, _)
BitAnd(a, b) ==
    IF a = 0 \/ b = 0 THEN 0
    ELSE (IF (a % 2 = 1) /\ (b % 2 = 1) THEN 1 ELSE 0) + 2 * BitAnd(a \div 2, b \div 2)

RECURSIVE Shl(_, _)
Shl(a, n) == IF n = 0 THEN a ELSE Shl(2 * a, n - 1)

Min(a, b) == IF a < b THEN a ELSE b
Max(a, b) == IF a > b THEN a ELSE b

(***************************************************************************)
(* UTF-8 decoder: utf8::State::advance and Utf8::advance                   *)
(***************************************************************************)
Utf8New == [state |-> "Ground", point |-> 0]

\* Utf8StateAdvance with the lead byte of three bytes expecting one tail byte
Utf8StateAdvance_short_tail(st, byte) ==
    CASE st = "Ground" ->
            IF byte <= 127 THEN [state |-> "Ground", act |-> "Emit"]
            ELSE IF byte >= 194 /\ byte <= 223 THEN [state |-> "Tail1", act |-> "SetByte2Top"]
            ELSE IF byte >= 224 /\ byte <= 239 THEN [state |-> "Tail1", act |-> "SetByte3Top"]
            ELSE IF byte >= 240 /\ byte <= 244 THEN [state |-> "Tail3", act |-> "SetByte4Top"]
            ELSE [state |-> "Ground", act |-> "InvalidSequence"]
      [] st = "Tail3" -> [state |-> "Tail2", act |-> "SetByte3"]
      [] st = "Tail2" -> [state |-> "Tail1", act |-> "SetByte2"]
      [] st = "Tail1" -> [state |-> "Ground", act |-> "SetByte1"]

\* State::advance: the next decoder state and the decoder action for a byte
Utf8StateAdvance(st, byte) ==
    CASE st = "Ground" ->
            IF byte <= 127 THEN [state |-> "Ground", act |-> "Emit"]
            ELSE IF byte >= 194 /\ byte <= 223 THEN [state |-> "Tail1", act |-> "SetByte2Top"]
            ELSE IF byte >= 224 /\ byte <= 239 THEN [state |-> "Tail2", act |-> "SetByte3Top"]
            ELSE IF byte >= 240 /\ byte <= 244 THEN [state |-> "Tail3", act |-> "SetByte4Top"]
            ELSE [state |-> "Ground", act |-> "InvalidSequence"]
      [] st = "Tail3" -> [state |-> "Tail2", act |-> "SetByte3"]
      [] st = "Tail2" -> [state |-> "Tail1", act |-> "SetByte2"]
      [] st = "Tail1" -> [state |-> "Ground", act |-> "SetByte1"]

\* char::from_u32 accepts exactly the Unicode scalar values
IsScalar(point) == (point < 55296) \/ (point > 57343 /\ point <= 1114111)

\* Utf8::advance: res is "Valid" (with character c), "Invalid", "None",
\* or "Panic" when char::from_u32(point).unwrap() meets None
Utf8Advance(u, byte) ==
    LET sa == Utf8StateAdvance(u.state, byte)
        acc(mask, shift) == BitOr(u.point, Shl(BitAnd(byte, mask), shift))
    IN CASE sa.act = "Emit" ->
              [u |-> [state |-> sa.state, point |-> 0], res |-> "Valid", c |-> byte]
         [] sa.act = "SetByte1" ->
              LET point == BitOr(u.point, BitAnd(byte, 63))
              IN IF IsScalar(point)
                 THEN [u |-> [state |-> sa.state, point |-> 0], res |-> "Valid", c |-> point]
                 ELSE [u |-> [state |-> sa.state, point |-> 0], res |-> "Panic", c |-> 0]
         [] sa.act = "SetByte2" ->
              [u |-> [state |-> sa.state, point |-> acc(63, 6)], res |-> "None", c |-> 0]
         [] sa.act = "SetByte3" ->
              [u |-> [state |-> sa.state, point |-> acc(63, 12)], res |-> "None", c |-> 0]
         [] sa.act = "SetByte2Top" ->
              [u |-> [state |-> sa.state, point |-> acc(31, 6)], res |-> "None", c |-> 0]
         [] sa.act = "SetByte3Top" ->
              [u |-> [state |-> sa.state, point |-> acc(15, 12)], res |-> "None", c |-> 0]
         [] sa.act = "SetByte4Top" ->
              [u |-> [state |-> sa.state, point |-> acc(7, 18)], res |-> "None", c |-> 0]
         [] sa.act = "InvalidSequence" ->
              [u |-> [state |-> sa.state, point |-> u.point], res |-> "Invalid", c |-> 0]

(***************************************************************************)
(* Escape parser: escape::Parser                                           *)
(***************************************************************************)
\* An action of the parser; kind "None" is Ok(None)
NoAction == [kind |-> "None", c |-> 0, params |-> <<>>, inter |-> <<>>]
PrintAct(c) == [kind |-> "Print", c |-> c, params |-> <<>>, inter |-> <<>>]
ExecuteAct(b) == [kind |-> "Execute", c |-> b, params |-> <<>>, inter |-> <<>>]
CsiAct(params, inter, c) == [kind |-> "CsiDispatch", c |-> c, params |-> params, inter |-> inter]
EscAct(inter, b) == [kind |-> "EscDispatch", c |-> b, params |-> <<>>, inter |-> inter]
OscAct(buf) == [kind |-> "OscDispatch", c |-> 0, params |-> buf, inter |-> <<>>]

\* Parser::new; the OSC array [0; 1024] is kept as the prefix written so
\* far, every slot beyond it holding 0
ParserNew ==
    [state |-> "Anywhere",
     csi |-> [i \in 0..(MAX_CSI - 1) |-> 0],
     osc |-> <<>>,
     index |-> 0,
     ibuf |-> [i \in 0..(MAX_INTERMEDIATES - 1) |-> 0],
     iindex |-> 0,
     utf8 |-> Utf8New,
     panic |-> FALSE]

\* &self.buf[..self.index]
InterSlice(p) == [i \in 1..p.iindex |-> p.ibuf[i - 1]]

\* &self.params.csi[..=self.params.index]
CsiSlice(p) == [i \in 1..(p.index + 1) |-> p.csi[i - 1]]

\* &self.params.osc[..self.params.index]
OscSlice(p) == [i \in 1..p.index |-> IF i <= Len(p.osc) THEN p.osc[i] ELSE 0]

\* self.params.osc[self.params.index] = byte
OscStore(osc, index, byte) ==
    [i \in 1..Max(Len(osc), index + 1) |->
        IF i = index + 1 THEN byte ELSE IF i <= Len(osc) THEN osc[i] ELSE 0]

Panicked(p) == [p |-> [p EXCEPT !.panic = TRUE], a |-> NoAction]

\* Intermediates::esc_param
esc_param(p, byte) ==
    IF byte >= 48 /\ byte <= 126
    THEN [p |-> [p EXCEPT !.state = "Anywhere", !.iindex = 0],
          a |-> EscAct(InterSlice(p), byte)]
    ELSE IF byte >= 32 /\ byte <= 47
    THEN IF p.iindex >= MAX_INTERMEDIATES
         THEN Panicked(p)
         ELSE [p |-> [p EXCEPT !.ibuf[p.iindex] = byte, !.iindex = p.iindex + 1],
               a |-> NoAction]
    ELSE [p |-> p, a |-> NoAction]

\* advance_esc without the reset of the parameter slots
advance_esc_keeps_csi(p) ==
    [p EXCEPT !.iindex = 0,
              !.index = 0,
              !.ibuf = [i \in 0..(MAX_INTERMEDIATES - 1) |-> 0],
              !.state = "Entry"]

\* The 0x1b arm of Parser::advance
advance_esc(p) ==
    [p EXCEPT !.iindex = 0,
              !.index = 0,
              !.ibuf = [i \in 0..(MAX_INTERMEDIATES - 1) |-> 0],
              !.csi = [i \in 0..(MAX_CSI - 1) |-> 0],
              !.state = "Entry"]

\* The State::Anywhere arm of Parser::advance
advance_anywhere(p, byte) ==
    IF byte < 31
    THEN [p |-> p, a |-> ExecuteAct(byte)]
    ELSE LET r == Utf8Advance(p.utf8, byte)
         IN CASE r.res = "Valid" -> [p |-> [p EXCEPT !.utf8 = r.u], a |-> PrintAct(r.c)]
              [] r.res = "Panic" -> Panicked([p EXCEPT !.utf8 = r.u])
              [] OTHER -> [p |-> [p EXCEPT !.utf8 = r.u], a |-> NoAction]

\* The State::Entry arm of Parser::advance
advance_entry(p, byte) ==
    IF byte = 91 THEN [p |-> [p EXCEPT !.state = "CsiParams"], a |-> NoAction]
    ELSE IF byte = 93 THEN [p |-> [p EXCEPT !.state = "OscParams"], a |-> NoAction]
    ELSE LET r == esc_param(p, byte)
         IN IF r.a.kind # "None" \/ r.p.panic
            THEN r
            ELSE [p |-> [r.p EXCEPT !.state = "EscParams"], a |-> NoAction]

\* advance_csi whose accumulation wraps around modulo 2^16
advance_csi_wrapping(p, byte) ==
    IF byte >= 64 /\ byte < 126
    THEN IF p.index >= MAX_CSI
         THEN Panicked(p)
         ELSE [p |-> [p EXCEPT !.state = "Anywhere"],
               a |-> CsiAct(CsiSlice(p), InterSlice(p), byte)]
    ELSE IF byte >= 48 /\ byte < 63
    THEN IF byte = 59 \/ byte = 58
         THEN [p |-> [p EXCEPT !.index = p.index + 1], a |-> NoAction]
         ELSE IF p.index >= MAX_CSI
              THEN Panicked(p)
              ELSE IF p.csi[p.index] # 0
                   THEN [p |-> [p EXCEPT !.csi[p.index] =
                                   (p.csi[p.index] * 10 + byte - 48) % (U16_MAX + 1)],
                         a |-> NoAction]
                   ELSE [p |-> [p EXCEPT !.csi[p.index] = byte - 48], a |-> NoAction]
    ELSE IF byte >= 32 /\ byte < 47 /\ p.iindex <= MAX_INTERMEDIATES
    THEN IF p.iindex >= MAX_INTERMEDIATES
         THEN Panicked(p)
         ELSE [p |-> [p EXCEPT !.ibuf[p.iindex] = byte, !.iindex = p.iindex + 1],
               a |-> NoAction]
    ELSE IF byte < 15
    THEN [p |-> p, a |-> ExecuteAct(byte)]
    ELSE [p |-> p, a |-> NoAction]

\* The State::CsiParams arm of Parser::advance
advance_csi(p, byte) ==
    IF byte >= 64 /\ byte < 126
    THEN IF p.index >= MAX_CSI
         THEN Panicked(p)
         ELSE [p |-> [p EXCEPT !.state = "Anywhere"],
               a |-> CsiAct(CsiSlice(p), InterSlice(p), byte)]
    ELSE IF byte >= 48 /\ byte < 63
    THEN IF byte = 59 \/ byte = 58
         THEN [p |-> [p EXCEPT !.index = p.index + 1], a |-> NoAction]
         ELSE IF p.index >= MAX_CSI
              THEN Panicked(p)
              ELSE IF p.csi[p.index] # 0
                   THEN [p |-> [p EXCEPT !.csi[p.index] =
                                   Min(p.csi[p.index] * 10 + byte - 48, U16_MAX)],
                         a |-> NoAction]
                   ELSE [p |-> [p EXCEPT !.csi[p.index] = byte - 48], a |-> NoAction]
    ELSE IF byte >= 32 /\ byte < 47 /\ p.iindex <= MAX_INTERMEDIATES
    THEN IF p.iindex >= MAX_INTERMEDIATES
         THEN Panicked(p)
         ELSE [p |-> [p EXCEPT !.ibuf[p.iindex] = byte, !.iindex = p.iindex + 1],
               a |-> NoAction]
    ELSE IF byte < 15
    THEN [p |-> p, a |-> ExecuteAct(byte)]
    ELSE [p |-> p, a |-> NoAction]

\* The State::OscParams arm of Parser::advance
advance_osc(p, byte) ==
    IF byte = 7 \/ byte = 156
    THEN [p |-> [p EXCEPT !.state = "Anywhere"], a |-> OscAct(OscSlice(p))]
    ELSE IF p.index >= OSC_LEN
         THEN Panicked(p)
         ELSE [p |-> [p EXCEPT !.osc = OscStore(p.osc, p.index, byte),
                               !.index = p.index + 1],
               a |-> NoAction]

\* Parser::advance: the parser after the byte and the action it returns
advance(p, byte) ==
    IF byte = ESC
    THEN [p |-> advance_esc(p), a |-> NoAction]
    ELSE CASE p.state = "Anywhere" -> advance_anywhere(p, byte)
           [] p.state = "Entry" -> advance_entry(p, byte)
           [] p.state = "CsiParams" -> advance_csi(p, byte)
           [] p.state = "EscParams" -> esc_param(p, byte)
           [] p.state = "OscParams" -> advance_osc(p, byte)

(***************************************************************************)
(* Configuration: config::Config::load defaults                            *)
(***************************************************************************)
\* "d7-e0-da" and "0d-16-17" as (r, g, b)
ConfigFg == <<215, 224, 218>>
ConfigBg == <<13, 22, 23>>

\* the eight palette entries
ConfigColors ==
    << <<40, 40, 40>>, <<204, 36, 29>>, <<152, 151, 26>>, <<214, 93, 14>>,
       <<69, 133, 136>>, <<177, 98, 134>>, <<131, 165, 152>>, <<235, 219, 178>> >>

\* config.tab_max: the length of the tab-stop vector (a configuration input)
TabMax == 10

(***************************************************************************)
(* Screen model: terminal::Screen                                          *)
(***************************************************************************)
DefaultAttr == [fg |-> ConfigFg, bg |-> ConfigBg]

Char(byte, attr) == [byte |-> byte, attr |-> attr]

SPACE == 32

Pos(x, y) == [x |-> x, y |-> y]

ModeNew ==
    [decim |-> FALSE, decom |-> FALSE, decscnm |-> FALSE, decckm |-> FALSE,
     dectecm |-> TRUE, decalt |-> FALSE, decpaste |-> FALSE, decfocus |-> FALSE]

\* window.width / cell.width and window.height / cell.height
Cols(s) == s.window.width \div CELL_WIDTH
Rows(s) == s.window.height \div CELL_HEIGHT

\* vec![vec![ch; w]; h]
Grid(h, w, ch) == [y \in 1..h |-> [x \in 1..w |-> ch]]

\* AltScreen::new
AltScreenNew(width, height) ==
    [cursor |-> [position |-> Pos(0, 0), save |-> Pos(0, 0)],
     attr |-> DefaultAttr,
     mode |-> ModeNew,
     buf |-> Grid((height \div 20) + 1, (width \div 10) + 1, Char(SPACE, DefaultAttr))]

\* Terminal::new: the screen of a terminal whose window is width x height
ScreenNew(width, height) ==
    [selection |-> [start |-> Pos(0, 0), end |-> Pos(0, 0), selecting |-> FALSE],
     cursor |-> [position |-> Pos(0, 0), save |-> Pos(0, 0)],
     window |-> [width |-> width, height |-> height],
     attr |-> DefaultAttr,
     mode |-> ModeNew,
     cursor_style |-> "Block",
     scrolling_region |-> [top |-> 0, bottom |-> (height \div 20) - 1],
     buf |-> Grid((height \div 20) + 1, (width \div 10) + 1, Char(SPACE, DefaultAttr)),
     alt |-> AltScreenNew(width, height),
     tabs |-> [x \in 0..(TabMax - 1) |-> x % 8 = 0],
     dirty |-> Grid((height \div 20) + 1, (width \div 10) + 1, TRUE),
     refresh |-> TRUE,
     focused |-> TRUE,
     scroll_set |-> FALSE,
     should_close |-> FALSE,
     pty |-> <<>>,
     panic |-> FALSE]

Panic(s) == [s EXCEPT !.panic = TRUE]

\* (y, x) indexes an existing cell of buf, of dirty (indices from 0)
BufHas(s, y, x) == y >= 0 /\ y < Len(s.buf) /\ x >= 0 /\ x < Len(s.buf[y + 1])
DirtyHas(s, y, x) == y >= 0 /\ y < Len(s.dirty) /\ x >= 0 /\ x < Len(s.dirty[y + 1])

RowOk(s, y) == y >= 0 /\ y < Len(s.buf)

\* Vec::remove(i) and Vec::insert(i, e), indices from 0
VecRemove(v, i) == SubSeq(v, 1, i) \o SubSeq(v, i + 2, Len(v))
VecInsert(v, i, e) == SubSeq(v, 1, i) \o <<e>> \o SubSeq(v, i + 1, Len(v))

\* Vec::resize(n, e)
VecResize(v, n, e) == [i \in 1..n |-> IF i <= Len(v) THEN v[i] ELSE e]

\* Screen::full_dirt
full_dirt(s) == [s EXCEPT !.dirty = Grid(Rows(s) + 1, Cols(s) + 1, TRUE)]

\* set_char without the comparison: every write marks the cell dirty
set_char_cell_always_dirty(cell, d, character) == [cell |-> character, d |-> TRUE]

\* The body of Screen::set_char on one cell: the cell and its dirty flag after
set_char_cell(cell, d, character) ==
    IF cell # character THEN [cell |-> character, d |-> TRUE] ELSE [cell |-> cell, d |-> d]

\* Screen::set_char
set_char(s, y, x, character) ==
    IF s.panic THEN s
    ELSE IF ~BufHas(s, y, x) THEN Panic(s)
    ELSE IF s.buf[y + 1][x + 1] # character /\ ~DirtyHas(s, y, x) THEN Panic(s)
    ELSE IF ~DirtyHas(s, y, x) THEN s
    ELSE LET r == set_char_cell(s.buf[y + 1][x + 1], s.dirty[y + 1][x + 1], character)
         IN [s EXCEPT !.buf[y + 1][x + 1] = r.cell, !.dirty[y + 1][x + 1] = r.d]

\* set_char(y, x, character) for every (y, x) of cells, all of them in buf
set_chars(s, cells, character) ==
    IF s.panic THEN s
    ELSE IF \E c \in cells : s.buf[c[1] + 1][c[2] + 1] # character /\ ~DirtyHas(s, c[1], c[2])
    THEN Panic(s)
    ELSE [s EXCEPT
            !.buf = [y \in 1..Len(s.buf) |-> [x \in 1..Len(s.buf[y]) |->
                        IF <<y - 1, x - 1>> \in cells /\ DirtyHas(s, y - 1, x - 1)
                        THEN set_char_cell(s.buf[y][x], s.dirty[y][x], character).cell
                        ELSE s.buf[y][x]]],
            !.dirty = [y \in 1..Len(s.dirty) |-> [x \in 1..Len(s.dirty[y]) |->
                        IF <<y - 1, x - 1>> \in cells /\ BufHas(s, y - 1, x - 1)
                        THEN set_char_cell(s.buf[y][x], s.dirty[y][x], character).d
                        ELSE s.dirty[y][x]]]]

\* Screen::insert_char
insert_char(s, y, x, character) ==
    IF s.panic THEN s
    ELSE IF ~RowOk(s, y) \/ x < 0 \/ x > Len(s.buf[y + 1]) THEN Panic(s)
    ELSE LET row == VecInsert(s.buf[y + 1], x, character)
             popped == SubSeq(row, 1, Len(row) - 1)
         IN IF x < Len(popped) /\ ~(y < Len(s.dirty) /\ Len(popped) <= Len(s.dirty[y + 1]))
            THEN Panic(s)
            ELSE [s EXCEPT !.buf[y + 1] = popped,
                           !.dirty = [yy \in 1..Len(s.dirty) |-> [xx \in 1..Len(s.dirty[yy]) |->
                                IF yy = y + 1 /\ xx - 1 >= x /\ xx - 1 < Len(popped)
                                THEN TRUE ELSE s.dirty[yy][xx]]]]

BlankRow(s) == [x \in 1..(Cols(s) + 1) |-> Char(SPACE, s.attr)]

\* Screen::scroll_down
scroll_down(s, y) ==
    IF s.panic THEN s
    ELSE IF s.scrolling_region.top >= Len(s.buf) THEN Panic(s)
    ELSE LET removed == VecRemove(s.buf, s.scrolling_region.top)
         IN IF y > Len(removed) THEN Panic(s)
            ELSE full_dirt([s EXCEPT !.buf = VecInsert(removed, y, BlankRow(s))])

\* scroll_up that removes the top row of the region, as scroll_down does
scroll_up_removes_top(s, y) ==
    IF s.panic THEN s
    ELSE IF s.scrolling_region.top >= Len(s.buf) THEN Panic(s)
    ELSE LET removed == VecRemove(s.buf, s.scrolling_region.top)
         IN IF y > Len(removed) THEN Panic(s)
            ELSE full_dirt([s EXCEPT !.buf = VecInsert(removed, y, BlankRow(s))])

\* Screen::scroll_up
scroll_up(s, y) ==
    IF s.panic THEN s
    ELSE IF s.scrolling_region.bottom >= Len(s.buf) THEN Panic(s)
    ELSE LET removed == VecRemove(s.buf, s.scrolling_region.bottom)
         IN IF y > Len(removed) THEN Panic(s)
            ELSE full_dirt([s EXCEPT !.buf = VecInsert(removed, y, BlankRow(s))])

\* Screen::decom_clamp
decom_clamp(s) ==
    IF s.cursor.position.y < s.scrolling_region.top
    THEN [s EXCEPT !.cursor.position.y = s.scrolling_region.top]
    ELSE IF s.cursor.position.y > s.scrolling_region.bottom
    THEN [s EXCEPT !.cursor.position.y = s.scrolling_region.bottom]
    ELSE s

\* switch_screen that does not store the cursor in the snapshot
switch_screen_keeps_alt_cursor(s) ==
    LET alt == s.alt
    IN full_dirt([s EXCEPT !.alt = [buf |-> s.buf, cursor |-> alt.cursor,
                                    attr |-> s.attr, mode |-> s.mode],
                           !.buf = alt.buf,
                           !.cursor = alt.cursor,
                           !.attr = alt.attr,
                           !.mode = alt.mode])

\* Screen::switch_screen
switch_screen(s) ==
    LET alt == s.alt
    IN full_dirt([s EXCEPT !.alt = [buf |-> s.buf, cursor |-> s.cursor,
                                    attr |-> s.attr, mode |-> s.mode],
                           !.buf = alt.buf,
                           !.cursor = alt.cursor,
                           !.attr = alt.attr,
                           !.mode = alt.mode])

\* Screen::write_tty_raw
write_tty_raw(s, content) == [s EXCEPT !.pty = s.pty \o content]

\* Screen::print that stores the default attribute, not the active one
print_default_attr(s, c) ==
    IF s.panic THEN s
    ELSE LET y == s.cursor.position.y
             x == s.cursor.position.x
             w == IF ~s.mode.decim
                  THEN set_char(s, y, x, Char(c, DefaultAttr))
                  ELSE insert_char(s, y, x, Char(c, DefaultAttr))
         IN IF w.panic THEN w
            ELSE IF x < Cols(s)
                 THEN [w EXCEPT !.cursor.position.x = x + 1]
                 ELSE w

\* Screen::print
print(s, c) ==
    IF s.panic THEN s
    ELSE LET y == s.cursor.position.y
             x == s.cursor.position.x
             w == IF ~s.mode.decim
                  THEN set_char(s, y, x, Char(c, s.attr))
                  ELSE insert_char(s, y, x, Char(c, s.attr))
         IN IF w.panic THEN w
            ELSE IF x < Cols(s)
                 THEN [w EXCEPT !.cursor.position.x = x + 1]
                 ELSE w

\* The first index after x at which tabs is set, as the 0x09 loop finds it;
\* -1 when the loop runs off the end of the vector
RECURSIVE NextTab(_, _)
NextTab(tabs, x) ==
    IF x < 0 \/ x >= TabMax THEN -1
    ELSE IF tabs[x] THEN x
    ELSE NextTab(tabs, x + 1)

\* Screen::execute with the blank row of a line feed inserted at the region top
execute_inserts_at_top(s, byte) ==
    IF s.panic THEN s
    ELSE CASE byte = 9 ->
               LET x == NextTab(s.tabs, s.cursor.position.x + 1)
               IN IF x < 0 THEN Panic(s) ELSE [s EXCEPT !.cursor.position.x = x]
           [] byte \in {10, 11, 12} ->
               IF s.cursor.position.y >= s.scrolling_region.bottom
               THEN scroll_down(s, s.scrolling_region.top)
               ELSE [s EXCEPT !.cursor.position.y = s.cursor.position.y + 1]
           [] byte = 13 -> [s EXCEPT !.cursor.position.x = 0]
           [] byte = 8 ->
               IF s.cursor.position.x > 0
               THEN [s EXCEPT !.cursor.position.x = s.cursor.position.x - 1]
               ELSE s
           [] OTHER -> s

\* Screen::execute
execute(s, byte) ==
    IF s.panic THEN s
    ELSE CASE byte = 9 ->
               LET x == NextTab(s.tabs, s.cursor.position.x + 1)
               IN IF x < 0 THEN Panic(s) ELSE [s EXCEPT !.cursor.position.x = x]
           [] byte \in {10, 11, 12} ->
               IF s.cursor.position.y >= s.scrolling_region.bottom
               THEN scroll_down(s, s.scrolling_region.bottom)
               ELSE [s EXCEPT !.cursor.position.y = s.cursor.position.y + 1]
           [] byte = 13 -> [s EXCEPT !.cursor.position.x = 0]
           [] byte = 8 ->
               IF s.cursor.position.x > 0
               THEN [s EXCEPT !.cursor.position.x = s.cursor.position.x - 1]
               ELSE s
           [] OTHER -> s

(***************************************************************************)
(* Dispatcher: Screen::csi_dispatch and Screen::esc_dispatch               *)
(***************************************************************************)
\* *params.get(i).unwrap_or(&default)
Param(params, i, default) == IF i < Len(params) THEN params[i + 1] ELSE default

Blank(s) == Char(SPACE, s.attr)

RowLen(s, y) == Len(s.buf[y + 1])

\* the cells (y, x) with x in xlo..xhi-1
CellsIn(y, xlo, xhi) == {<<y, x>> : x \in xlo..(xhi - 1)}

\* every cell of the rows ylo..yhi-1 of buf
RowsIn(s, ylo, yhi) == UNION {CellsIn(y, 0, RowLen(s, y)) : y \in ylo..(yhi - 1)}

\* 'J': erase in display
csi_ED(s, params) ==
    LET y == s.cursor.position.y
        x == s.cursor.position.x
        n == Param(params, 0, 0)
    IN CASE n = 0 ->
              IF ~RowOk(s, y) THEN Panic(s)
              ELSE set_chars(s, RowsIn(s, y + 1, Len(s.buf)) \cup CellsIn(y, x, RowLen(s, y)), Blank(s))
         [] n = 1 ->
              IF ~RowOk(s, y) \/ x + 1 > RowLen(s, y) THEN Panic(s)
              ELSE set_chars(s, RowsIn(s, 0, y) \cup CellsIn(y, 0, x + 1), Blank(s))
         [] n \in {2, 3} ->
              set_chars(s, RowsIn(s, 0, Len(s.buf)), Blank(s))
         [] OTHER -> s

\* 'K': erase in line
csi_EL(s, params) ==
    LET y == s.cursor.position.y
        x == s.cursor.position.x
        n == Param(params, 0, 0)
    IN CASE n = 0 ->
              IF ~RowOk(s, y) THEN Panic(s)
              ELSE set_chars(s, CellsIn(y, x, RowLen(s, y)), Blank(s))
         [] n = 1 ->
              IF ~RowOk(s, y) \/ x + 1 > RowLen(s, y) THEN Panic(s)
              ELSE set_chars(s, CellsIn(y, 0, x + 1), Blank(s))
         [] n = 2 ->
              IF ~RowOk(s, y) THEN Panic(s)
              ELSE set_chars(s, CellsIn(y, 0, RowLen(s, y)), Blank(s))
         [] OTHER -> s

\* 'X': erase characters
csi_ECH(s, params) ==
    LET y == s.cursor.position.y
        x == s.cursor.position.x
        n == Param(params, 0, 1)
    IN IF n = 0 THEN s
       ELSE IF ~RowOk(s, y) \/ x + n > RowLen(s, y) THEN Panic(s)
       ELSE set_chars(s, CellsIn(y, x, x + n), Blank(s))

\* n calls of insert_char at the cursor ('@')
RECURSIVE insert_blanks(_, _)
insert_blanks(s, n) ==
    IF n = 0 \/ s.panic THEN s
    ELSE insert_blanks(insert_char(s, s.cursor.position.y, s.cursor.position.x, Blank(s)), n - 1)

\* n calls of scroll_down at row y ('L')
RECURSIVE scroll_down_n(_, _, _)
scroll_down_n(s, y, n) ==
    IF n = 0 \/ s.panic THEN s ELSE scroll_down_n(scroll_down(s, y), y, n - 1)

\* n calls of scroll_up at row y ('M')
RECURSIVE scroll_up_n(_, _, _)
scroll_up_n(s, y, n) ==
    IF n = 0 \/ s.panic THEN s ELSE scroll_up_n(scroll_up(s, y), y, n - 1)

\* n times: remove the cell at x of the row, push a blank ('P')
RECURSIVE delete_chars(_, _, _, _)
delete_chars(row, x, n, blank) ==
    IF n = 0 THEN row
    ELSE delete_chars(VecRemove(row, x) \o <<blank>>, x, n - 1, blank)

\* 'P': delete characters
csi_DCH(s, params) ==
    LET y == s.cursor.position.y
        x == s.cursor.position.x
        n == Param(params, 0, 1)
    IN IF ~RowOk(s, y) THEN Panic(s)
       ELSE IF n > 0 /\ x >= RowLen(s, y) THEN Panic(s)
       ELSE IF x < RowLen(s, y) /\ ~(y < Len(s.dirty) /\ RowLen(s, y) <= Len(s.dirty[y + 1]))
       THEN Panic(s)
       ELSE [s EXCEPT !.buf[y + 1] = delete_chars(s.buf[y + 1], x, n, Blank(s)),
                      !.dirty = [yy \in 1..Len(s.dirty) |-> [xx \in 1..Len(s.dirty[yy]) |->
                                    IF yy = y + 1 /\ xx - 1 >= x /\ xx - 1 < RowLen(s, y)
                                    THEN TRUE ELSE s.dirty[yy][xx]]]]

\* The stop the inner loop of 'Z' finds going left from x; -1 when the
\* loop indexes tabs out of range
RECURSIVE PrevTab(_, _)
PrevTab(tabs, x) ==
    IF x < 0 \/ x >= TabMax THEN -1
    ELSE IF tabs[x] THEN x
    ELSE PrevTab(tabs, x - 1)

\* n rounds of the 'Z' loop from column x; -1 on a panic
RECURSIVE back_tabs(_, _, _)
back_tabs(tabs, x, n) ==
    IF n = 0 THEN x
    ELSE LET t == PrevTab(tabs, x - 1)
         IN IF t < 0 THEN -1 ELSE back_tabs(tabs, t, n - 1)

\* 'Z': cursor backward tabulation
csi_CBT(s, params) ==
    LET n == Param(params, 0, 1)
        x == back_tabs(s.tabs, s.cursor.position.x, n)
    IN IF n > 0 /\ x < 0 THEN Panic(s)
       ELSE [s EXCEPT !.cursor.position.x = Max(x, 0)]

\* csi_SGR whose direct-colour form skips four parameters, not five
RECURSIVE csi_SGR_short_skip(_, _, _, _)
csi_SGR_short_skip(s, params, index, xftOk) ==
    IF index >= Len(params) THEN s
    ELSE LET param == Param(params, index, 0)
         IN CASE param = 0 -> csi_SGR_short_skip([s EXCEPT !.attr = DefaultAttr], params, index + 1, xftOk)
              [] param \in {22, 1, 3} -> csi_SGR_short_skip(s, params, index + 1, xftOk)
              [] param = 7 ->
                   csi_SGR_short_skip([s EXCEPT !.attr = [fg |-> ConfigBg, bg |-> ConfigFg]],
                           params, index + 1, xftOk)
              [] param = 27 ->
                   csi_SGR_short_skip([s EXCEPT !.attr = [fg |-> ConfigFg, bg |-> ConfigBg]],
                           params, index + 1, xftOk)
              [] param = 39 -> csi_SGR_short_skip([s EXCEPT !.attr.fg = ConfigFg], params, index + 1, xftOk)
              [] param = 49 -> csi_SGR_short_skip([s EXCEPT !.attr.bg = ConfigBg], params, index + 1, xftOk)
              [] param \in {38, 48} ->
                   IF Param(params, index + 1, 2) = 2
                   THEN LET raw == <<Param(params, index + 2, 0), Param(params, index + 3, 0),
                                     Param(params, index + 4, 0)>>
                            t == IF ~xftOk THEN s
                                 ELSE IF param = 38 THEN [s EXCEPT !.attr.fg = raw]
                                 ELSE [s EXCEPT !.attr.bg = raw]
                        IN csi_SGR_short_skip(t, params, index + 4, xftOk)
                   ELSE csi_SGR_short_skip(s, params, index + 1, xftOk)
              [] param \in 30..37 ->
                   csi_SGR_short_skip([s EXCEPT !.attr.fg = ConfigColors[param - 30 + 1]], params, index + 1, xftOk)
              [] param \in 90..97 ->
                   csi_SGR_short_skip([s EXCEPT !.attr.fg = ConfigColors[param - 90 + 1]], params, index + 1, xftOk)
              [] param \in 40..47 ->
                   csi_SGR_short_skip([s EXCEPT !.attr.bg = ConfigColors[param - 40 + 1]], params, index + 1, xftOk)
              [] param \in 100..107 ->
                   csi_SGR_short_skip([s EXCEPT !.attr.bg = ConfigColors[param - 100 + 1]], params, index + 1, xftOk)
              [] OTHER -> csi_SGR_short_skip(s, params, index + 1, xftOk)

\* 'm': the loop over the SGR parameters from index on; xftOk tells whether
\* Display::xft_color_alloc_value succeeds
RECURSIVE csi_SGR(_, _, _, _)
csi_SGR(s, params, index, xftOk) ==
    IF index >= Len(params) THEN s
    ELSE LET param == Param(params, index, 0)
         IN CASE param = 0 -> csi_SGR([s EXCEPT !.attr = DefaultAttr], params, index + 1, xftOk)
              [] param \in {22, 1, 3} -> csi_SGR(s, params, index + 1, xftOk)
              [] param = 7 ->
                   csi_SGR([s EXCEPT !.attr = [fg |-> ConfigBg, bg |-> ConfigFg]],
                           params, index + 1, xftOk)
              [] param = 27 ->
                   csi_SGR([s EXCEPT !.attr = [fg |-> ConfigFg, bg |-> ConfigBg]],
                           params, index + 1, xftOk)
              [] param = 39 -> csi_SGR([s EXCEPT !.attr.fg = ConfigFg], params, index + 1, xftOk)
              [] param = 49 -> csi_SGR([s EXCEPT !.attr.bg = ConfigBg], params, index + 1, xftOk)
              [] param \in {38, 48} ->
                   IF Param(params, index + 1, 2) = 2
                   THEN LET raw == <<Param(params, index + 2, 0), Param(params, index + 3, 0),
                                     Param(params, index + 4, 0)>>
                            t == IF ~xftOk THEN s
                                 ELSE IF param = 38 THEN [s EXCEPT !.attr.fg = raw]
                                 ELSE [s EXCEPT !.attr.bg = raw]
                        IN csi_SGR(t, params, index + 5, xftOk)
                   ELSE csi_SGR(s, params, index + 1, xftOk)
              [] param \in 30..37 ->
                   csi_SGR([s EXCEPT !.attr.fg = ConfigColors[param - 30 + 1]], params, index + 1, xftOk)
              [] param \in 90..97 ->
                   csi_SGR([s EXCEPT !.attr.fg = ConfigColors[param - 90 + 1]], params, index + 1, xftOk)
              [] param \in 40..47 ->
                   csi_SGR([s EXCEPT !.attr.bg = ConfigColors[param - 40 + 1]], params, index + 1, xftOk)
              [] param \in 100..107 ->
                   csi_SGR([s EXCEPT !.attr.bg = ConfigColors[param - 100 + 1]], params, index + 1, xftOk)
              [] OTHER -> csi_SGR(s, params, index + 1, xftOk)

\* format!("{}", n) for an i32: the decimal digits as bytes
RECURSIVE Digits(_)
Digits(n) == IF n < 10 THEN <<48 + n>> ELSE Digits(n \div 10) \o <<48 + (n % 10)>>

Decimal(n) == IF n < 0 THEN <<45>> \o Digits(0 - n) ELSE Digits(n)

\* csi_DSR that reports the absolute row in origin mode too
csi_DSR_absolute(s, params) ==
    LET n == Param(params, 0, 0)
    IN CASE n = 5 -> write_tty_raw(s, <<27, 91, 48, 110>>)
         [] n = 6 ->
              write_tty_raw(s, <<27, 91>> \o Decimal(s.cursor.position.y + 1)
                        \o <<59>> \o Decimal(s.cursor.position.x + 1) \o <<82>>)
         [] OTHER -> s

\* 'n': device status report
csi_DSR(s, params) ==
    LET n == Param(params, 0, 0)
    IN CASE n = 5 -> write_tty_raw(s, <<27, 91, 48, 110>>)
         [] n = 6 ->
              IF s.mode.decom
              THEN write_tty_raw(s, <<27, 91>>
                        \o Decimal(s.cursor.position.y - s.scrolling_region.top + 1)
                        \o <<59>> \o Decimal(s.cursor.position.x + 1) \o <<82>>)
              ELSE write_tty_raw(s, <<27, 91>> \o Decimal(s.cursor.position.y + 1)
                        \o <<59>> \o Decimal(s.cursor.position.x + 1) \o <<82>>)
         [] OTHER -> s

\* 'c': device attributes; the replies are "\x1b[>1;4000;33c" and "\x1b[?6c"
csi_DA(s, params) ==
    LET n == Param(params, 0, 0)
    IN CASE n = 14 -> write_tty_raw(s, <<27, 91, 62, 49, 59, 52, 48, 48, 48, 59, 51, 51, 99>>)
         [] n = 0 -> write_tty_raw(s, <<27, 91, 63, 54, 99>>)
         [] OTHER -> s

\* 'h': set mode
csi_SM(s, params) ==
    LET n == Param(params, 0, 0)
    IN CASE n = 1 -> [s EXCEPT !.mode.decckm = TRUE]
         [] n = 4 -> [s EXCEPT !.mode.decim = TRUE]
         [] n = 5 -> [s EXCEPT !.mode.decscnm = TRUE]
         [] n = 6 -> [s EXCEPT !.cursor.position = Pos(0, 0), !.mode.decom = TRUE]
         [] n = 25 -> [s EXCEPT !.mode.dectecm = TRUE]
         [] n = 1004 -> [s EXCEPT !.mode.decfocus = TRUE]
         [] n = 1049 ->
              IF ~s.mode.decalt
              THEN [switch_screen(s) EXCEPT !.mode.decalt = TRUE]
              ELSE s
         [] n = 2004 -> [s EXCEPT !.mode.decpaste = TRUE]
         [] OTHER -> s

\* csi_RM without the arm of bracketed paste
csi_RM_no_paste(s, params) ==
    LET n == Param(params, 0, 0)
    IN CASE n = 1 -> [s EXCEPT !.mode.decckm = FALSE]
         [] n = 4 -> [s EXCEPT !.mode.decim = FALSE]
         [] n = 5 -> [s EXCEPT !.mode.decscnm = FALSE]
         [] n = 6 -> [s EXCEPT !.cursor.position = Pos(0, 0), !.mode.decom = FALSE]
         [] n = 25 -> [s EXCEPT !.mode.dectecm = FALSE]
         [] n = 1004 -> [s EXCEPT !.mode.decfocus = FALSE]
         [] n = 1049 ->
              IF s.mode.decalt
              THEN [switch_screen(s) EXCEPT !.mode.decalt = FALSE]
              ELSE s
         [] OTHER -> s

\* 'l': reset mode
csi_RM(s, params) ==
    LET n == Param(params, 0, 0)
    IN CASE n = 1 -> [s EXCEPT !.mode.decckm = FALSE]
         [] n = 4 -> [s EXCEPT !.mode.decim = FALSE]
         [] n = 5 -> [s EXCEPT !.mode.decscnm = FALSE]
         [] n = 6 -> [s EXCEPT !.cursor.position = Pos(0, 0), !.mode.decom = FALSE]
         [] n = 25 -> [s EXCEPT !.mode.dectecm = FALSE]
         [] n = 1004 -> [s EXCEPT !.mode.decfocus = FALSE]
         [] n = 1049 ->
              IF s.mode.decalt
              THEN [switch_screen(s) EXCEPT !.mode.decalt = FALSE]
              ELSE s
         [] n = 2004 -> [s EXCEPT !.mode.decpaste = FALSE]
         [] OTHER -> s

\* 'r': set the scrolling region
csi_DECSTBM(s, params) ==
    [s EXCEPT !.scrolling_region =
                  [top |-> Max(Param(params, 0, 0), 1) - 1,
                   bottom |-> Max(Param(params, 1, (s.window.height % 65536) \div CELL_HEIGHT), 1) - 1],
              !.cursor.position = Pos(0, 0),
              !.scroll_set = (Len(params) # 0)]

\* Screen::csi_dispatch
csi_dispatch(s, params, intermediates, c, xftOk) ==
    IF s.panic THEN s
    ELSE LET y == s.cursor.position.y
             x == s.cursor.position.x
             n1 == Max(Param(params, 0, 1), 1)
             t == CASE c = 74 -> csi_ED(s, params)
                    [] c = 75 -> csi_EL(s, params)
                    [] c \in {72, 102} ->
                         [s EXCEPT !.cursor.position.x =
                                       Min(Max(Param(params, 1, 1), 1) - 1, Cols(s)),
                                   !.cursor.position.y =
                                       IF s.mode.decom
                                       THEN n1 - 1 + s.scrolling_region.top
                                       ELSE n1 - 1]
                    [] c = 65 -> [s EXCEPT !.cursor.position.y = y - Min(y, n1)]
                    [] c \in {66, 101} -> [s EXCEPT !.cursor.position.y = y + n1]
                    [] c \in {67, 97} -> [s EXCEPT !.cursor.position.x = x + n1]
                    [] c = 68 -> [s EXCEPT !.cursor.position.x = x - Min(x, n1)]
                    [] c = 69 -> [s EXCEPT !.cursor.position = Pos(0, y + n1)]
                    [] c = 70 -> [s EXCEPT !.cursor.position = Pos(0, y - Min(y, n1))]
                    [] c = 103 ->
                         CASE Param(params, 0, 0) = 0 ->
                                  IF x < 0 \/ x >= TabMax THEN Panic(s)
                                  ELSE [s EXCEPT !.tabs[x] = FALSE]
                           [] Param(params, 0, 0) = 3 ->
                                  [s EXCEPT !.tabs = [i \in DOMAIN s.tabs |-> FALSE]]
                           [] OTHER -> s
                    [] c = 64 -> insert_blanks(s, Param(params, 0, 1))
                    [] c \in {71, 96} -> [s EXCEPT !.cursor.position.x = n1 - 1]
                    [] c = 83 -> scroll_up(s, s.scrolling_region.top)
                    [] c = 84 -> scroll_down(s, s.scrolling_region.bottom)
                    [] c = 76 ->
                         LET r == scroll_down_n(s, y, Param(params, 0, 1))
                         IN IF r.panic THEN r ELSE [r EXCEPT !.cursor.position.x = 0]
                    [] c = 77 ->
                         LET r == scroll_up_n(s, y, Param(params, 0, 1))
                         IN IF r.panic THEN r ELSE [r EXCEPT !.cursor.position.x = 0]
                    [] c = 88 -> csi_ECH(s, params)
                    [] c = 80 -> csi_DCH(s, params)
                    [] c = 90 -> csi_CBT(s, params)
                    [] c = 100 -> [s EXCEPT !.cursor.position.y = n1 - 1]
                    [] c = 109 -> csi_SGR(s, params, 0, xftOk)
                    [] c = 110 -> csi_DSR(s, params)
                    [] c = 99 -> csi_DA(s, params)
                    [] c = 115 -> [s EXCEPT !.cursor.save = s.cursor.position]
                    [] c = 117 -> [s EXCEPT !.cursor.position = s.cursor.save]
                    [] c = 104 -> csi_SM(s, params)
                    [] c = 108 -> csi_RM(s, params)
                    [] c = 113 ->
                         CASE Param(params, 0, 0) = 2 -> [s EXCEPT !.cursor_style = "Block"]
                           [] Param(params, 0, 0) = 4 -> [s EXCEPT !.cursor_style = "Underline"]
                           [] Param(params, 0, 0) = 6 -> [s EXCEPT !.cursor_style = "Line"]
                           [] OTHER -> s
                    [] c = 114 -> csi_DECSTBM(s, params)
                    [] OTHER -> s
         IN IF t.panic THEN t
            ELSE IF t.mode.decom THEN decom_clamp(t) ELSE t

\* Screen::esc_dispatch
esc_dispatch(s, intermediates, byte) ==
    IF s.panic THEN s
    ELSE LET prefix == Param(intermediates, 0, 113)
         IN IF prefix \in {113, 35}
            THEN CASE byte = 77 ->
                        IF s.cursor.position.y <= s.scrolling_region.top
                        THEN scroll_up(s, s.scrolling_region.top)
                        ELSE [s EXCEPT !.cursor.position.y = s.cursor.position.y - 1]
                   [] byte = 68 -> [s EXCEPT !.cursor.position.y = s.cursor.position.y + 1]
                   [] byte = 69 -> [s EXCEPT !.cursor.position =
                                                 Pos(0, s.cursor.position.y + 1)]
                   [] byte = 90 -> write_tty_raw(s, <<27, 91, 63, 54, 99>>)
                   [] byte = 72 ->
                        IF s.cursor.position.x < 0 \/ s.cursor.position.x >= TabMax
                        THEN Panic(s)
                        ELSE [s EXCEPT !.tabs[s.cursor.position.x] = TRUE]
                   [] byte = 99 ->
                        [full_dirt([s EXCEPT !.buf = Grid(Rows(s) + 1, Cols(s) + 1,
                                                          Char(SPACE, DefaultAttr))])
                            EXCEPT !.cursor.position = Pos(0, 0), !.attr = DefaultAttr]
                   [] byte = 56 ->
                        [s EXCEPT !.buf = Grid(Rows(s) + 1, Cols(s) + 1, Char(69, s.attr))]
                   [] OTHER -> s
            ELSE s

(***************************************************************************)
(* Window events and the renderer                                          *)
(***************************************************************************)
\* Screen::handle_event, the Expose arm
handle_expose(s, width, height) ==
    IF s.panic THEN s
    ELSE IF width # s.window.width \/ height # s.window.height
    THEN LET w == (width \div CELL_WIDTH) + 1
             h == (height \div CELL_HEIGHT) + 1
             default_ch == Char(SPACE, DefaultAttr)
             resized(buf) == [y \in 1..h |->
                                 VecResize(IF y <= Len(buf) THEN buf[y]
                                           ELSE [x \in 1..w |-> default_ch], w, default_ch)]
             t == [s EXCEPT !.window = [width |-> width, height |-> height],
                            !.dirty = Grid(h, w, TRUE),
                            !.buf = resized(s.buf),
                            !.alt.buf = resized(s.alt.buf),
                            !.scrolling_region.bottom =
                                IF ~s.scroll_set THEN (height \div CELL_HEIGHT) - 1
                                ELSE s.scrolling_region.bottom,
                            !.refresh = TRUE]
         IN IF t.cursor.position.y > height \div CELL_HEIGHT
            THEN [t EXCEPT !.cursor.position.y = (height \div CELL_HEIGHT) - 1]
            ELSE t
    ELSE s

\* The selection as Screen::draw normalises it
DrawSelection(s) ==
    LET sel == IF s.selection.end.y > s.selection.start.y
               THEN s.selection
               ELSE [start |-> s.selection.end, end |-> s.selection.start, selecting |-> FALSE]
    IN IF sel.start.x > sel.end.x /\ sel.start.y = sel.end.y
       THEN [sel EXCEPT !.start.x = sel.end.x, !.end.x = sel.start.x]
       ELSE sel

\* Screen::is_within_selection
is_within_selection(y, x, selection) ==
    IF selection.start = selection.end THEN FALSE
    ELSE IF selection.start.y = selection.end.y /\ y = selection.start.y
    THEN x >= selection.start.x /\ x < selection.end.x
    ELSE IF y = selection.start.y THEN x >= selection.start.x
    ELSE IF y = selection.end.y THEN x <= selection.end.x
    ELSE y > selection.start.y /\ y < selection.end.y

\* Screen::draw with the cells of the selection marked clean like the rest
draw_cleans_selection(s) ==
    IF s.panic THEN s
    ELSE LET sel == DrawSelection(s)
             visible(y) == y * CELL_HEIGHT >= 0 /\ y * CELL_HEIGHT < s.window.height
         IN IF \E y \in 1..Len(s.buf) : visible(y - 1) /\
                   (y > Len(s.dirty) \/ Len(s.dirty[y]) < Len(s.buf[y]))
            THEN Panic(s)
            ELSE LET d == [y \in 1..Len(s.dirty) |-> [x \in 1..Len(s.dirty[y]) |->
                              IF visible(y - 1) /\ y <= Len(s.buf) /\ x <= Len(s.buf[y])
                              THEN FALSE
                              ELSE s.dirty[y][x]]]
                     cy == s.cursor.position.y
                     cx == s.cursor.position.x
                 IN IF ~(cy >= 0 /\ cy < Len(d) /\ cx >= 0 /\ cx < Len(d[cy + 1]))
                    THEN Panic(s)
                    ELSE [s EXCEPT !.dirty = [d EXCEPT ![cy + 1][cx + 1] = TRUE],
                                   !.refresh = FALSE]

\* Screen::draw
draw(s) ==
    IF s.panic THEN s
    ELSE LET sel == DrawSelection(s)
             visible(y) == y * CELL_HEIGHT >= 0 /\ y * CELL_HEIGHT < s.window.height
         IN IF \E y \in 1..Len(s.buf) : visible(y - 1) /\
                   (y > Len(s.dirty) \/ Len(s.dirty[y]) < Len(s.buf[y]))
            THEN Panic(s)
            ELSE LET d == [y \in 1..Len(s.dirty) |-> [x \in 1..Len(s.dirty[y]) |->
                              IF visible(y - 1) /\ y <= Len(s.buf) /\ x <= Len(s.buf[y])
                              THEN is_within_selection(y - 1, x - 1, sel)
                              ELSE s.dirty[y][x]]]
                     cy == s.cursor.position.y
                     cx == s.cursor.position.x
                 IN IF ~(cy >= 0 /\ cy < Len(d) /\ cx >= 0 /\ cx < Len(d[cy + 1]))
                    THEN Panic(s)
                    ELSE [s EXCEPT !.dirty = [d EXCEPT ![cy + 1][cx + 1] = TRUE],
                                   !.refresh = FALSE]

(***************************************************************************)
(* Terminal::handle_bytes                                                  *)
(***************************************************************************)
\* The match on the action in Terminal::handle_bytes
dispatch(s, a, xftOk) ==
    CASE a.kind = "Print" -> print(s, a.c)
      [] a.kind = "Execute" -> execute(s, a.c)
      [] a.kind = "CsiDispatch" -> csi_dispatch(s, a.params, a.inter, a.c, xftOk)
      [] a.kind = "EscDispatch" -> esc_dispatch(s, a.inter, a.c)
      [] OTHER -> s

(***************************************************************************)
(* Bounds and inputs of the specifications                                 *)
(***************************************************************************)
\* the window of Terminal::new in the specifications of the screen
InitWidth == 20
InitHeight == 40

NoProbe == [kind |-> "none"]
NoLast == [byte |-> -1, from |-> "Anywhere", loaded |-> FALSE, a |-> NoAction]

\* the parser holds parameters and intermediates of an unfinished sequence
Loaded(p) ==
    /\ p.index > 0
    /\ p.iindex > 0
    /\ \E i \in DOMAIN p.csi : p.csi[i] # 0
    /\ \E i \in DOMAIN p.ibuf : p.ibuf[i] # 0

(***************************************************************************)
(* SpecParser: a fresh parser fed any bytes, one at a time                 *)
(***************************************************************************)
\* the number of bytes fed to the parser
MaxFeed == 6

\* ESC [ ] ; 1 9 SP A, BEL, and the UTF-8 bytes ED A0 80
ParserBytes == {27, 91, 93, 59, 49, 57, 32, 65, 7, 237, 160, 128}

InitParser ==
    /\ parser = ParserNew
    /\ screen = ScreenNew(InitWidth, InitHeight)
    /\ input = <<>>
    /\ fed = 0
    /\ last = NoLast
    /\ probe = NoProbe

\* one call of Parser::advance
ParserFeed ==
    /\ ~parser.panic
    /\ fed < MaxFeed
    /\ \E byte \in ParserBytes :
          LET r == advance(parser, byte)
          IN /\ parser' = r.p
             /\ last' = [byte |-> byte, from |-> parser.state,
                         loaded |-> Loaded(parser), a |-> r.a]
    /\ fed' = fed + 1
    /\ UNCHANGED <<screen, input, probe>>

NextParser == ParserFeed

SpecParser == InitParser /\ [][NextParser]_vars

\* C2: feeding any sequence of bytes to a fresh parser never panics: no
\* index leaves the parameter, intermediate or OSC arrays and the UTF-8
\* decoder never unwraps a missing character
C2_ParserTotality == ~parser.panic

\* C4: a byte 0x1B fed in any parser state produces no action, moves the
\* parser to Entry, zeroes both indexes, every CSI parameter slot and every
\* intermediate byte
C4_EscResets ==
    last.byte = ESC =>
        /\ last.a = NoAction
        /\ parser.state = "Entry"
        /\ parser.index = 0
        /\ parser.iindex = 0
        /\ \A i \in DOMAIN parser.csi : parser.csi[i] = 0
        /\ \A i \in DOMAIN parser.ibuf : parser.ibuf[i] = 0

\* ESC arrived in CsiParams while parameters and intermediates were held
C4_Witness ==
    /\ last.byte = ESC
    /\ last.from = "CsiParams"
    /\ last.loaded
    /\ parser.state = "Entry"

(***************************************************************************)
(* SpecUtf8: the bytes of a valid UTF-8 string fed to a fresh parser       *)
(***************************************************************************)
\* the number of codepoints of the string
MaxStr == 2

\* LF, ESC, the neighbours of the Execute limit 0x1F, and the first and
\* last codepoint of every encoded length
Codepoints ==
    {10, 27, 30, 31, 32, 65, 127, 128, 233, 2047, 2048, 55295, 57344, 65535, 65536,
     1114111}

\* the UTF-8 encoding of a Unicode scalar value (str::bytes)
Utf8Encode(c) ==
    IF c < 128 THEN <<c>>
    ELSE IF c < 2048 THEN <<192 + (c \div 64), 128 + (c % 64)>>
    ELSE IF c < 65536
    THEN <<224 + (c \div 4096), 128 + ((c \div 64) % 64), 128 + (c % 64)>>
    ELSE <<240 + (c \div 262144), 128 + ((c \div 4096) % 64),
           128 + ((c \div 64) % 64), 128 + (c % 64)>>

RECURSIVE Utf8Bytes(_)
Utf8Bytes(str) == IF str = <<>> THEN <<>> ELSE Utf8Encode(Head(str)) \o Utf8Bytes(Tail(str))

Strings == UNION {[1..n -> Codepoints] : n \in 1..MaxStr}

InitUtf8 ==
    /\ parser = ParserNew
    /\ screen = ScreenNew(InitWidth, InitHeight)
    /\ \E str \in Strings :
          /\ input = Utf8Bytes(str)
          /\ probe = [kind |-> "utf8", str |-> str, printed |-> <<>>]
    /\ fed = 0
    /\ last = NoLast

\* the next byte of the string goes through Parser::advance; the characters
\* of the Print actions are collected
ParserFeedInput ==
    /\ ~parser.panic
    /\ input # <<>>
    /\ LET r == advance(parser, Head(input))
       IN /\ parser' = r.p
          /\ last' = [byte |-> Head(input), from |-> parser.state,
                      loaded |-> Loaded(parser), a |-> r.a]
          /\ probe' = IF r.a.kind = "Print"
                      THEN [probe EXCEPT !.printed = Append(@, r.a.c)]
                      ELSE probe
    /\ input' = Tail(input)
    /\ fed' = fed + 1
    /\ UNCHANGED screen

NextUtf8 == ParserFeedInput

SpecUtf8 == InitUtf8 /\ [][NextUtf8]_vars

\* C5 as stated: for every valid UTF-8 string the characters of the Print
\* actions are, in order, the codepoints of the string
C5_RoundTripEveryString ==
    (input = <<>>) => (~parser.panic /\ probe.printed = probe.str)

\* C5 amended: for every valid UTF-8 string without a C0 control character
\* (no codepoint below U+0020) the characters of the Print actions are, in
\* order, the codepoints of the string
C5_RoundTrip ==
    (input = <<>> /\ \A i \in DOMAIN probe.str : probe.str[i] >= 32)
        => (~parser.panic /\ probe.printed = probe.str)

\* a four-byte and a three-byte character were decoded and printed
C5_Witness ==
    /\ input = <<>>
    /\ Len(probe.str) = 2
    /\ probe.str[1] >= 65536
    /\ probe.str[2] \in 2048..65535
    /\ probe.printed = probe.str

(***************************************************************************)
(* Steps of the terminal on actions, window events and frames              *)
(***************************************************************************)
ExposeAct(w, h) == [kind |-> "Expose", c |-> 0, params |-> <<w, h>>, inter |-> <<>>]
DrawAct == [kind |-> "Draw", c |-> 0, params |-> <<>>, inter |-> <<>>]

Csi(params, c) == CsiAct(params, <<>>, c)

\* Terminal::handle_bytes on a batch that makes the parser return the
\* action a: the screen dispatches it, then refresh is set
handle_action(s, a, xftOk) ==
    LET t == dispatch(s, a, xftOk)
    IN IF t.panic THEN t ELSE [t EXCEPT !.refresh = TRUE]

\* one batch whose action is drawn from menu, at most bound batches
Step(menu, bound) ==
    /\ ~screen.panic
    /\ fed < bound
    /\ \E a \in menu, xftOk \in BOOLEAN :
          /\ screen' = handle_action(screen, a, xftOk)
          /\ last' = [NoLast EXCEPT !.a = a]
    /\ fed' = fed + 1
    /\ probe' = NoProbe
    /\ UNCHANGED <<parser, input>>

\* an Expose event with one of the sizes
ExposeStep(sizes, bound) ==
    /\ ~screen.panic
    /\ fed < bound
    /\ \E sz \in sizes :
          /\ screen' = handle_expose(screen, sz[1], sz[2])
          /\ last' = [NoLast EXCEPT !.a = ExposeAct(sz[1], sz[2])]
    /\ fed' = fed + 1
    /\ probe' = NoProbe
    /\ UNCHANGED <<parser, input>>

\* Terminal::run draws a frame when refresh is set
DrawStep(bound) ==
    /\ ~screen.panic
    /\ fed < bound
    /\ screen.refresh
    /\ screen' = draw(screen)
    /\ last' = [NoLast EXCEPT !.a = DrawAct]
    /\ fed' = fed + 1
    /\ probe' = NoProbe
    /\ UNCHANGED <<parser, input>>

InitScreen(width, height) ==
    /\ parser = ParserNew
    /\ screen = ScreenNew(width, height)
    /\ input = <<>>
    /\ fed = 0
    /\ last = NoLast
    /\ probe = NoProbe

(***************************************************************************)
(* SpecScreen: any actions, resizes and frames from the initial screen     *)
(***************************************************************************)
\* the number of steps
MaxSteps == 3

ScreenMenu ==
    {PrintAct(65), ExecuteAct(9), ExecuteAct(10), ExecuteAct(13), ExecuteAct(8)}
    \cup {Csi(<<0>>, 65), Csi(<<3>>, 66), Csi(<<1>>, 67), Csi(<<0>>, 68),
          Csi(<<2>>, 69), Csi(<<1>>, 70), Csi(<<2>>, 71), Csi(<<2, 2>>, 72),
          Csi(<<4>>, 100)}
    \cup {Csi(<<0>>, 74), Csi(<<1>>, 74), Csi(<<2>>, 74), Csi(<<0>>, 75),
          Csi(<<2>>, 88), Csi(<<1>>, 80), Csi(<<1>>, 64), Csi(<<1>>, 76),
          Csi(<<1>>, 77), Csi(<<0>>, 83), Csi(<<0>>, 84)}
    \cup {Csi(<<2, 5>>, 114), Csi(<<0>>, 114), Csi(<<6>>, 104), Csi(<<4>>, 104),
          Csi(<<1049>>, 104), Csi(<<1049>>, 108), Csi(<<31>>, 109),
          Csi(<<1>>, 90), Csi(<<3>>, 103), Csi(<<6>>, 110)}
    \cup {EscAct(<<>>, 77), EscAct(<<>>, 68), EscAct(<<>>, 99), EscAct(<<35>>, 56),
          EscAct(<<>>, 72)}

ScreenSizes == {<<20, 40>>, <<30, 40>>, <<20, 60>>, <<30, 60>>}

NextScreen ==
    \/ Step(ScreenMenu, MaxSteps)
    \/ ExposeStep(ScreenSizes, MaxSteps)
    \/ DrawStep(MaxSteps)

SpecScreen == InitScreen(InitWidth, InitHeight) /\ [][NextScreen]_vars

\* C1: after every dispatched action the cursor satisfies 0 <= y < rows
\* and 0 <= x < cols
C1_CursorBounds ==
    ~screen.panic =>
        /\ 0 <= screen.cursor.position.y /\ screen.cursor.position.y < Rows(screen)
        /\ 0 <= screen.cursor.position.x /\ screen.cursor.position.x < Cols(screen)

\* the grid has rows+1 rows of cols+1 cells and the dirty map has its shape
GridShape(s) ==
    /\ Len(s.buf) = Rows(s) + 1
    /\ Len(s.dirty) = Len(s.buf)
    /\ \A y \in 1..Len(s.buf) :
          Len(s.buf[y]) = Cols(s) + 1 /\ Len(s.dirty[y]) = Len(s.buf[y])

\* C3: in every reachable state the dirty map has the shape of the grid,
\* the grid has rows+1 rows of cols+1 cells, and no operation has indexed
\* the grid, the dirty map or the tab vector out of range
C3_GridShape == ~screen.panic /\ GridShape(screen)

\* the shape alone, in the states the program survives to
ShapeWhileRunning == ~screen.panic => GridShape(screen)

(***************************************************************************)
(* SpecErase: printing, colouring, cursor addressing, erasing and frames   *)
(***************************************************************************)
\* the number of steps
MaxErase == 5

EraseMenu ==
    {PrintAct(65), Csi(<<1, 1>>, 72), Csi(<<2, 2>>, 72), Csi(<<1, 3>>, 72),
     Csi(<<31>>, 109), Csi(<<0>>, 109)}
    \cup {Csi(<<n>>, 74) : n \in 0..2}
    \cup {Csi(<<n>>, 75) : n \in 0..2}
    \cup {Csi(<<n>>, 88) : n \in 1..2}

NextErase ==
    \/ Step(EraseMenu, MaxErase)
    \/ DrawStep(MaxErase)

SpecErase == InitScreen(InitWidth, InitHeight) /\ [][NextErase]_vars

\* set_char with the character a cell already holds changes nothing
SetCharSame ==
    \A y \in 0..(Len(screen.buf) - 1) : \A x \in 0..(RowLen(screen, y) - 1) :
        set_char(screen, y, x, screen.buf[y + 1][x + 1]) = screen

\* an ED, EL or ECH step leaves every cell that was blank with the active
\* attribute as it was, with its dirty flag
EraseKeepsBlank ==
    (/\ last'.a.kind = "CsiDispatch"
     /\ last'.a.c \in {74, 75, 88}
     /\ ~screen'.panic)
        => \A y \in 1..Len(screen.buf) : \A x \in 1..Len(screen.buf[y]) :
              screen.buf[y][x] = Blank(screen)
                  => /\ screen'.buf[y][x] = screen.buf[y][x]
                     /\ screen'.dirty[y][x] = screen.dirty[y][x]

\* C7: set_char(y, x, c) with c the cell already stored at (y, x) leaves the
\* cell and dirty[y][x] unchanged, and ED, EL and ECH leave the dirty flag
\* of a cell unchanged when the cell already is blank with the active
\* attribute
C7_IdempotentWrite == []SetCharSame /\ [][EraseKeepsBlank]_vars

\* an erase of the whole cursor line went over a clean blank cell and left
\* it clean, with printed text on the screen
C7_Witness ==
    /\ ~screen.panic
    /\ last.a = Csi(<<2>>, 75)
    /\ \E x \in 1..Len(screen.dirty[1]) : ~screen.dirty[screen.cursor.position.y + 1][x]
    /\ \E y \in 1..Len(screen.buf) : \E x \in 1..Len(screen.buf[y]) :
          screen.buf[y][x].byte = 65 /\ ~screen.dirty[y][x]

(***************************************************************************)
(* SpecSwitch: switch_screen called on the screens a session reaches       *)
(***************************************************************************)
\* the number of steps
MaxSwitch == 5

SwitchMenu ==
    {PrintAct(65), Csi(<<2, 2>>, 72), Csi(<<0>>, 115), Csi(<<31>>, 109),
     Csi(<<4>>, 104), Csi(<<1049>>, 104), Csi(<<1049>>, 108)}

\* one call of Screen::switch_screen; the screen before the first of two
\* successive calls is remembered
SwitchStep ==
    /\ ~screen.panic
    /\ fed < MaxSwitch
    /\ screen' = switch_screen(screen)
    /\ probe' = IF probe.kind = "switch" /\ probe.n = 1
                THEN [probe EXCEPT !.n = 2]
                ELSE [kind |-> "switch", n |-> 1, pre |-> screen]
    /\ last' = [NoLast EXCEPT !.a.kind = "Switch"]
    /\ fed' = fed + 1
    /\ UNCHANGED <<parser, input>>

NextSwitch ==
    \/ Step(SwitchMenu, MaxSwitch)
    \/ SwitchStep

SpecSwitch == InitScreen(InitWidth, InitHeight) /\ [][NextSwitch]_vars

\* C6: two successive calls of switch_screen restore the grid, the active
\* attribute, the mode flags and the cursor (position and saved position)
\* and leave the stored alternate snapshot as it was
C6_SwitchInvolution ==
    (probe.kind = "switch" /\ probe.n = 2) =>
        /\ screen.buf = probe.pre.buf
        /\ screen.attr = probe.pre.attr
        /\ screen.mode = probe.pre.mode
        /\ screen.cursor = probe.pre.cursor
        /\ screen.alt = probe.pre.alt

\* switched twice from a screen that differs from its alternate snapshot in
\* grid, attribute, modes and cursor
C6_Witness ==
    /\ probe.kind = "switch" /\ probe.n = 2
    /\ probe.pre.buf # probe.pre.alt.buf
    /\ probe.pre.attr # probe.pre.alt.attr
    /\ probe.pre.cursor # probe.pre.alt.cursor
    /\ probe.pre.mode # probe.pre.alt.mode

(***************************************************************************)
(* SpecScroll: scroll_down(top) followed by scroll_up(bottom)              *)
(***************************************************************************)
\* the number of steps
MaxScroll == 5

\* the rows of the window
ScrollRows == 3

ScrollMenu ==
    {PrintAct(65), ExecuteAct(10), Csi(<<31>>, 109),
     Csi(<<0>>, 114), Csi(<<2, 3>>, 114), Csi(<<1, 2>>, 114), Csi(<<3, 2>>, 114)}

\* Screen::scroll_down at the top of the region
ScrollDownTopStep ==
    /\ ~screen.panic
    /\ fed < MaxScroll
    /\ screen' = scroll_down(screen, screen.scrolling_region.top)
    /\ probe' = [kind |-> "scroll", n |-> 1, pre |-> screen]
    /\ last' = [NoLast EXCEPT !.a.kind = "ScrollDown"]
    /\ fed' = fed + 1
    /\ UNCHANGED <<parser, input>>

\* Screen::scroll_up at the bottom of the region, right after
ScrollUpBottomStep ==
    /\ ~screen.panic
    /\ fed < MaxScroll
    /\ probe.kind = "scroll" /\ probe.n = 1
    /\ screen' = scroll_up(screen, screen.scrolling_region.bottom)
    /\ probe' = [probe EXCEPT !.n = 2]
    /\ last' = [NoLast EXCEPT !.a.kind = "ScrollUp"]
    /\ fed' = fed + 1
    /\ UNCHANGED <<parser, input>>

NextScroll ==
    \/ Step(ScrollMenu, MaxScroll)
    \/ ScrollDownTopStep
    \/ ScrollUpBottomStep

SpecScroll == InitScreen(InitWidth, ScrollRows * CELL_HEIGHT) /\ [][NextScroll]_vars

\* 0 <= top <= bottom < rows
RegionValid(s) ==
    /\ 0 <= s.scrolling_region.top
    /\ s.scrolling_region.top <= s.scrolling_region.bottom
    /\ s.scrolling_region.bottom < Rows(s)

\* C9: for a region with 0 <= top <= bottom < rows, scroll_down(top)
\* followed by scroll_up(bottom) leaves every grid row other than row top
\* and row bottom as it was and leaves rows top and bottom blank with the
\* active attribute
C9_ScrollPair ==
    (probe.kind = "scroll" /\ probe.n = 2 /\ RegionValid(probe.pre)) =>
        /\ ~screen.panic
        /\ Len(screen.buf) = Len(probe.pre.buf)
        /\ \A y \in 1..Len(screen.buf) :
              IF y - 1 \in {probe.pre.scrolling_region.top, probe.pre.scrolling_region.bottom}
              THEN screen.buf[y] = BlankRow(probe.pre)
              ELSE screen.buf[y] = probe.pre.buf[y]

\* the pair ran on a region of several rows whose top row held text, with
\* text on a row between top and bottom and a coloured active attribute
C9_Witness ==
    /\ probe.kind = "scroll" /\ probe.n = 2 /\ RegionValid(probe.pre)
    /\ ~screen.panic
    /\ probe.pre.scrolling_region.top + 1 < probe.pre.scrolling_region.bottom
    /\ \E x \in 1..Len(screen.buf[1]) :
          probe.pre.buf[probe.pre.scrolling_region.top + 1][x].byte = 65
    /\ \E x \in 1..Len(screen.buf[1]) :
          /\ probe.pre.buf[probe.pre.scrolling_region.top + 2][x].byte = 65
          /\ screen.buf[probe.pre.scrolling_region.top + 2][x].byte = 65

(***************************************************************************)
(* Steps of the terminal on the bytes read from the PTY                    *)
(***************************************************************************)
\* the body of the loop of Terminal::handle_bytes for one byte; final tells
\* that the byte is the last of its batch, after which refresh is set
handle_byte(p, s, byte, final, xftOk) ==
    LET r == advance(p, byte)
        t == IF r.p.panic THEN s ELSE dispatch(s, r.a, xftOk)
    IN [p |-> r.p,
        s |-> IF final /\ ~r.p.panic /\ ~t.panic THEN [t EXCEPT !.refresh = TRUE] ELSE t,
        a |-> r.a]

\* the terminal handles the next byte of the batch
HandleByte ==
    /\ input # <<>>
    /\ ~parser.panic
    /\ ~screen.panic
    /\ \E xftOk \in BOOLEAN :
          LET r == handle_byte(parser, screen, Head(input), Tail(input) = <<>>, xftOk)
          IN /\ parser' = r.p
             /\ screen' = r.s
             /\ last' = [byte |-> Head(input), from |-> parser.state,
                         loaded |-> Loaded(parser), a |-> r.a]
    /\ input' = Tail(input)
    /\ UNCHANGED <<fed, probe>>

\* the bytes of ESC [ ? n final and of ESC [ a ; b final
CsiPrivate(n, final) == <<27, 91, 63>> \o Decimal(n) \o <<final>>
Csi2(a, b, final) == <<27, 91>> \o Decimal(a) \o <<59>> \o Decimal(b) \o <<final>>

(***************************************************************************)
(* SpecMode: CSI ? N h and CSI ? N l sent as bytes                         *)
(***************************************************************************)
\* the number of sequences or pairs sent
MaxSends == 2

ModeCodes == {1, 4, 5, 6, 25, 1004, 1049, 2004}

\* the flag of Mode that mode code n names
ModeFlag(s, n) ==
    CASE n = 1 -> s.mode.decckm
      [] n = 4 -> s.mode.decim
      [] n = 5 -> s.mode.decscnm
      [] n = 6 -> s.mode.decom
      [] n = 25 -> s.mode.dectecm
      [] n = 1004 -> s.mode.decfocus
      [] n = 1049 -> s.mode.decalt
      [] n = 2004 -> s.mode.decpaste

\* the child writes CSI ? N h
SendSet ==
    /\ input = <<>>
    /\ fed < MaxSends
    /\ \E n \in ModeCodes : input' = CsiPrivate(n, 104)
    /\ probe' = NoProbe
    /\ fed' = fed + 1
    /\ UNCHANGED <<parser, screen, last>>

\* the child writes CSI ? N h CSI ? N l; the flag before is remembered
SendPair ==
    /\ input = <<>>
    /\ fed < MaxSends
    /\ \E n \in ModeCodes :
          /\ input' = CsiPrivate(n, 104) \o CsiPrivate(n, 108)
          /\ probe' = [kind |-> "pair", n |-> n, before |-> ModeFlag(screen, n)]
    /\ fed' = fed + 1
    /\ UNCHANGED <<parser, screen, last>>

NextMode ==
    \/ SendSet
    \/ SendPair
    \/ HandleByte

SpecMode == InitScreen(InitWidth, InitHeight) /\ [][NextMode]_vars

PairDone == probe.kind = "pair" /\ input = <<>>

\* C8 as stated: after CSI ? N h CSI ? N l the flag of N has the value it
\* had before the pair, whatever that value was
C8_PairRestoresFlag ==
    PairDone => ModeFlag(screen, probe.n) = probe.before

\* C8 amended: after CSI ? N h CSI ? N l the flag of N is reset, so the pair
\* restores the flag exactly when it was reset before the pair
C8_PairResetsFlag ==
    PairDone =>
        /\ ~parser.panic /\ ~screen.panic
        /\ ModeFlag(screen, probe.n) = FALSE
        /\ (ModeFlag(screen, probe.n) = probe.before) <=> (probe.before = FALSE)

\* the pair for the alternate screen ran while the alternate screen was
\* active
C8_Witness ==
    /\ PairDone
    /\ probe.n = 1049
    /\ probe.before = TRUE
    /\ ~screen.mode.decalt

(***************************************************************************)
(* SpecCupDsr: ESC [ r ; c H ESC [ 6 n sent as bytes                       *)
(***************************************************************************)
\* the rows and columns of the window
DsrRows == 11
DsrCols == 11

\* no region set, or ESC [ t ; b r sent first
DsrRegions == {<<0, 0>>} \cup {<<t, b>> : t \in {1, 2, 3}, b \in {2, 3, DsrRows}}

InitCupDsr ==
    /\ parser = ParserNew
    /\ screen = ScreenNew(DsrCols * CELL_WIDTH, DsrRows * CELL_HEIGHT)
    /\ fed = 0
    /\ last = NoLast
    /\ \E r \in 1..DsrRows, c \in 1..DsrCols, om \in BOOLEAN, reg \in DsrRegions :
          /\ input = (IF reg = <<0, 0>> THEN <<>> ELSE Csi2(reg[1], reg[2], 114))
                     \o (IF om THEN CsiPrivate(6, 104) ELSE <<>>)
                     \o Csi2(r, c, 72)
                     \o <<27, 91, 54, 110>>
          /\ probe = [kind |-> "dsr", r |-> r, c |-> c, om |-> om, reg |-> reg]

NextCupDsr == HandleByte

SpecCupDsr == InitCupDsr /\ [][NextCupDsr]_vars

\* the rows of the scrolling region
RegionHeight(s) == s.scrolling_region.bottom - s.scrolling_region.top + 1

\* C10: for 1 <= r <= rows and 1 <= c <= cols, ESC [ r ; c H followed by
\* ESC [ 6 n makes the terminal write exactly ESC [ r ; c R to the PTY;
\* with origin mode set the same holds for every r not exceeding the height
\* of the scrolling region
C10_CupDsr ==
    (/\ input = <<>>
     /\ probe.om => probe.r <= RegionHeight(screen))
        => /\ ~parser.panic /\ ~screen.panic
           /\ screen.pty = Csi2(probe.r, probe.c, 82)

\* in origin mode, a region that does not start at the first row, a row and
\* a column of two digits inside it: the report is relative to the region
C10_Witness ==
    /\ input = <<>>
    /\ probe.om
    /\ screen.mode.decom
    /\ screen.scrolling_region.top > 0
    /\ probe.r = RegionHeight(screen)
    /\ probe.r >= 10
    /\ probe.c >= 10
    /\ screen.cursor.position.y = probe.r - 1 + screen.scrolling_region.top
    /\ screen.pty = Csi2(probe.r, probe.c, 82)


(***************************************************************************)
(* SpecInsertLine: text on several rows, a region, then CSI n L            *)
(***************************************************************************)
\* the number of steps
MaxIl == 4

\* the rows of the window
IlRows == 4

InsertLineMenu ==
    {PrintAct(65), PrintAct(66), ExecuteAct(10), ExecuteAct(13),
     Csi(<<2, 3>>, 114), Csi(<<1>>, 76), Csi(<<2>>, 76)}

NextInsertLine == Step(InsertLineMenu, MaxIl)

SpecInsertLine == InitScreen(InitWidth, IlRows * CELL_HEIGHT) /\ [][NextInsertLine]_vars

\* a step that dispatches CSI n L with n >= 1 and the cursor row inside a
\* valid scrolling region has the effect of Insert Line
InsertLineStep ==
    (/\ last'.a.kind = "CsiDispatch"
     /\ last'.a.c = 76
     /\ last'.a.params[1] >= 1
     /\ RegionValid(screen)
     /\ screen.scrolling_region.top <= screen.cursor.position.y
     /\ screen.cursor.position.y <= screen.scrolling_region.bottom)
        => LET n == last'.a.params[1]
               y == screen.cursor.position.y
               bottom == screen.scrolling_region.bottom
           IN /\ ~screen'.panic
              /\ screen'.cursor.position.x = 0
              /\ Len(screen'.buf) = Len(screen.buf)
              /\ \A r \in 0..(Len(screen.buf) - 1) :
                    screen'.buf[r + 1] =
                        IF r < y \/ r > bottom THEN screen.buf[r + 1]
                        ELSE IF r < y + n THEN BlankRow(screen)
                        ELSE screen.buf[r + 1 - n]

\* C11: with the cursor on row y inside the scrolling region and n >= 1,
\* CSI n L blanks rows y..y+n-1, moves the former rows y..bottom-n down by
\* n, discards the former rows bottom-n+1..bottom, leaves the rows above y
\* and below bottom unchanged and sets cursor x to 0
C11_InsertLine == [][InsertLineStep]_vars

(***************************************************************************)
(* SpecAlt: a primary session, CSI ?1049h, alternate-screen output,        *)
(* CSI ?1049l                                                              *)
(***************************************************************************)
\* the number of steps
MaxAlt == 6

\* what the session does on the primary screen
AltPrimaryMenu ==
    {PrintAct(65), Csi(<<31>>, 109), Csi(<<2, 2>>, 72), Csi(<<1, 1>>, 114),
     Csi(<<6>>, 104), EscAct(<<>>, 68)}

\* Print, erase and cursor actions sent while the alternate screen is active
AltMenu ==
    {PrintAct(88), Csi(<<2>>, 74), Csi(<<0>>, 75), Csi(<<1, 2>>, 72),
     Csi(<<1>>, 66), ExecuteAct(13)}

AltPrimaryStep ==
    /\ probe.kind = "alt" => probe.done
    /\ Step(AltPrimaryMenu, MaxAlt)

\* CSI ?1049h on the primary screen; the screen before is remembered
EnterAlt ==
    /\ ~screen.panic
    /\ fed < MaxAlt
    /\ probe.kind # "alt"
    /\ ~screen.mode.decalt
    /\ screen' = handle_action(screen, Csi(<<1049>>, 104), TRUE)
    /\ probe' = [kind |-> "alt", done |-> FALSE, wrote |-> FALSE, pre |-> screen]
    /\ last' = [NoLast EXCEPT !.a = Csi(<<1049>>, 104)]
    /\ fed' = fed + 1
    /\ UNCHANGED <<parser, input>>

\* an action while the alternate screen is active
AltStep ==
    /\ ~screen.panic
    /\ fed < MaxAlt
    /\ probe.kind = "alt" /\ ~probe.done
    /\ \E a \in AltMenu :
          /\ screen' = handle_action(screen, a, TRUE)
          /\ last' = [NoLast EXCEPT !.a = a]
          /\ probe' = [probe EXCEPT !.wrote = @ \/ a.kind = "Print"]
    /\ fed' = fed + 1
    /\ UNCHANGED <<parser, input>>

\* CSI ?1049l
LeaveAlt ==
    /\ ~screen.panic
    /\ fed < MaxAlt
    /\ probe.kind = "alt" /\ ~probe.done
    /\ screen' = handle_action(screen, Csi(<<1049>>, 108), TRUE)
    /\ probe' = [probe EXCEPT !.done = TRUE]
    /\ last' = [NoLast EXCEPT !.a = Csi(<<1049>>, 108)]
    /\ fed' = fed + 1
    /\ UNCHANGED <<parser, input>>

NextAlt ==
    \/ AltPrimaryStep
    \/ EnterAlt
    \/ AltStep
    \/ LeaveAlt

SpecAlt == InitScreen(InitWidth, InitHeight) /\ [][NextAlt]_vars

\* C12: after CSI ?1049h, Print, erase and cursor actions and CSI ?1049l,
\* the primary grid, cursor and attribute are what they were before
\* CSI ?1049h (stated for primary cursors that are inside the grid)
C12_AltIsolation ==
    (/\ probe.kind = "alt" /\ probe.done /\ ~screen.panic
     /\ probe.pre.cursor.position.y \in 0..(Rows(probe.pre) - 1)
     /\ probe.pre.cursor.position.x \in 0..(Cols(probe.pre) - 1)) =>
        /\ screen.buf = probe.pre.buf
        /\ screen.cursor = probe.pre.cursor
        /\ screen.attr = probe.pre.attr


\* the same from primary screens on which origin mode is not set: the
\* restored cursor is not clamped to the scrolling region after CSI ?1049l
AltRestoresWithoutOrigin ==
    (probe.kind = "alt" /\ probe.done /\ ~screen.panic /\ ~probe.pre.mode.decom) =>
        /\ screen.buf = probe.pre.buf
        /\ screen.cursor = probe.pre.cursor
        /\ screen.attr = probe.pre.attr


(***************************************************************************)
(* SpecSgr: SGR lists that hold 38;2;r;g;b or 48;2;r;g;b                   *)
(***************************************************************************)
\* the number of steps
MaxSgr == 3

\* colour components that are SGR codes too (reset, reverse, palette
\* foreground and background), all 8-bit
SgrComponents == {0, 7, 31, 41}

\* the code that follows b
SgrFollowers == {0, 1, 7, 32, 44}

SgrBaseMenu == {PrintAct(65), Csi(<<31>>, 109), Csi(<<44>>, 109)}

\* the parameter lists p;2;r;g;b and p;2;r;g;b;k
SgrDirectLists ==
    {<<p, 2, r, g, b>> : p \in {38, 48}, r \in SgrComponents, g \in SgrComponents,
                         b \in SgrComponents}
    \cup {<<p, 2, 10, g, b, k>> : p \in {38, 48}, g \in SgrComponents,
                                  b \in SgrComponents, k \in SgrFollowers}

\* one SGR sequence with a direct colour is dispatched; the screen before,
\* the list and the outcome of the colour allocation are remembered
SgrStep ==
    /\ ~screen.panic
    /\ fed < MaxSgr
    /\ probe.kind # "sgr"
    /\ \E params \in SgrDirectLists, xftOk \in BOOLEAN :
          /\ screen' = handle_action(screen, Csi(params, 109), xftOk)
          /\ last' = [NoLast EXCEPT !.a = Csi(params, 109)]
          /\ probe' = [kind |-> "sgr", pre |-> screen, params |-> params, xftOk |-> xftOk]
    /\ fed' = fed + 1
    /\ UNCHANGED <<parser, input>>

\* what the session does before the sequence
SgrBaseStep ==
    /\ probe.kind # "sgr"
    /\ Step(SgrBaseMenu, MaxSgr)

NextSgr ==
    \/ SgrBaseStep
    \/ SgrStep

SpecSgr == InitScreen(InitWidth, InitHeight) /\ [][NextSgr]_vars

\* the attribute after the colour of the list alone
SgrColoured(attr, params, xftOk) ==
    IF ~xftOk THEN attr
    ELSE IF params[1] = 38 THEN [attr EXCEPT !.fg = <<params[3], params[4], params[5]>>]
    ELSE [attr EXCEPT !.bg = <<params[3], params[4], params[5]>>]

\* C13: in an SGR list, 38;2;r;g;b sets the foreground to (r,g,b) and
\* 48;2;r;g;b the background, r, g and b are not read as SGR codes, and a
\* parameter after b has the effect it has as an SGR code of its own; when
\* the colour allocation fails the colour leaves the attribute unchanged
C13_SgrDirectColour ==
    probe.kind = "sgr" =>
        LET coloured == [probe.pre EXCEPT
                            !.attr = SgrColoured(probe.pre.attr, probe.params, probe.xftOk)]
        IN /\ ~screen.panic
           /\ screen.attr = IF Len(probe.params) = 5 THEN coloured.attr
                            ELSE csi_dispatch(coloured, <<probe.params[6]>>, <<>>, 109,
                                              probe.xftOk).attr

\* a background colour whose components are SGR codes was set on a red
\* foreground and followed by the code for bold
C13_Witness ==
    /\ probe.kind = "sgr"
    /\ probe.xftOk
    /\ probe.params = <<48, 2, 10, 7, 31, 1>>
    /\ probe.pre.attr.fg = ConfigColors[2]
    /\ screen.attr = [fg |-> ConfigColors[2], bg |-> <<10, 7, 31>>]


(***************************************************************************)
(* SpecColourPrint: colour and cursor sequences followed by text, as bytes *)
(***************************************************************************)
\* the bytes of ESC [ 31 ; 1 m A ESC [ 0 m B
ColourPrintBytes == <<27, 91, 51, 49, 59, 49, 109, 65, 27, 91, 48, 109, 66>>

\* nothing, ESC [ 31 m or ESC [ 4 h (insert mode) before the text
PrintPrefixes == {<<>>, <<27, 91, 51, 49, 109>>, <<27, 91, 52, 104>>}

\* the child writes the scenario, or a prefix, ESC [ r ; c H and A B C
InitColourPrint ==
    /\ parser = ParserNew
    /\ screen = ScreenNew(InitWidth, InitHeight)
    /\ fed = 0
    /\ last = NoLast
    /\ \/ /\ input = ColourPrintBytes
          /\ probe = [kind |-> "print", scenario |-> TRUE]
       \/ /\ \E pre \in PrintPrefixes :
                \E r \in 1..(InitHeight \div CELL_HEIGHT), c \in 1..((InitWidth \div CELL_WIDTH) + 2) :
                    input = pre \o Csi2(r, c, 72) \o <<65, 66, 67>>
          /\ probe = [kind |-> "print", scenario |-> FALSE]

NextColourPrint == HandleByte

SpecColourPrint == InitColourPrint /\ [][NextColourPrint]_vars

\* after the scenario: 'A' in red at (0,0), 'B' in the default colour at
\* (0,1), cursor at row 0, column 2
ColourPrintScenario ==
    (probe.scenario /\ input = <<>>) =>
        /\ ~parser.panic /\ ~screen.panic
        /\ screen.buf[1][1] = Char(65, [fg |-> ConfigColors[2], bg |-> ConfigBg])
        /\ screen.buf[1][2] = Char(66, DefaultAttr)
        /\ screen.cursor.position = Pos(2, 0)

\* the byte handled is printed in replace mode with the cursor on a cell of
\* the grid
PrintsInReplaceMode ==
    /\ last'.a.kind = "Print"
    /\ ~screen.mode.decim
    /\ screen.cursor.position.y \in 0..Rows(screen)
    /\ screen.cursor.position.x \in 0..Cols(screen)

\* the cell at the cursor holds the character with the active attribute and
\* no other cell changed
PrintStoresAtCursor ==
    /\ ~screen'.panic
    /\ screen'.buf = [screen.buf EXCEPT
                         ![screen.cursor.position.y + 1][screen.cursor.position.x + 1] =
                             Char(last'.a.c, screen.attr)]
    /\ screen'.cursor.position.y = screen.cursor.position.y

PrintAdvancesAlways ==
    PrintsInReplaceMode =>
        /\ PrintStoresAtCursor
        /\ screen'.cursor.position.x = screen.cursor.position.x + 1

PrintAdvancesToCols ==
    PrintsInReplaceMode =>
        /\ PrintStoresAtCursor
        /\ screen'.cursor.position.x =
               IF screen.cursor.position.x < Cols(screen)
               THEN screen.cursor.position.x + 1
               ELSE screen.cursor.position.x

MaxUnknown == 3

UnknownBaseMenu ==
    {PrintAct(65), Csi(<<31>>, 109), Csi(<<6>>, 104), EscAct(<<>>, 68)}

\* CSI finals I W b i t y, with and without a parameter
UnknownCsi == {Csi(<<n>>, c) : n \in {0, 2}, c \in {73, 87, 98, 105, 116, 121}}

\* ESC 7, ESC 8, ESC =, ESC # M, ESC # D, ESC # c, ESC ( 0, ESC ) B
UnknownEsc ==
    {EscAct(<<>>, 55), EscAct(<<>>, 56), EscAct(<<>>, 61), EscAct(<<35>>, 77),
     EscAct(<<35>>, 68), EscAct(<<35>>, 99), EscAct(<<40>>, 48), EscAct(<<41>>, 66)}

UnknownBaseStep ==
    /\ probe.kind # "unknown"
    /\ Step(UnknownBaseMenu, MaxUnknown)

\* one sequence outside the tables is dispatched; the screen before is
\* remembered
UnknownStep ==
    /\ ~screen.panic
    /\ fed < MaxUnknown
    /\ probe.kind # "unknown"
    /\ \E a \in UnknownCsi \cup UnknownEsc :
          /\ screen' = handle_action(screen, a, TRUE)
          /\ last' = [NoLast EXCEPT !.a = a]
    /\ probe' = [kind |-> "unknown", pre |-> screen]
    /\ fed' = fed + 1
    /\ UNCHANGED <<parser, input>>

NextUnknown ==
    \/ UnknownBaseStep
    \/ UnknownStep

SpecUnknown == InitScreen(InitWidth, InitHeight) /\ [][NextUnknown]_vars

\* C15: dispatching a CSI final byte outside the supported table, or an ESC
\* dispatch other than ESC ( B, ESC M D E Z H c without intermediate and
\* ESC # 8, leaves the grid, the dirty map, the cursor, the attribute, the
\* mode flags, the tab stops and the scrolling region unchanged and writes
\* nothing to the PTY
C15_UnknownInert ==
    probe.kind = "unknown" =>
        /\ ~screen.panic
        /\ screen.buf = probe.pre.buf
        /\ screen.dirty = probe.pre.dirty
        /\ screen.cursor = probe.pre.cursor
        /\ screen.attr = probe.pre.attr
        /\ screen.mode = probe.pre.mode
        /\ screen.tabs = probe.pre.tabs
        /\ screen.scrolling_region = probe.pre.scrolling_region
        /\ screen.pty = probe.pre.pty

\* the same for the CSI finals alone, from screens on which origin mode is
\* not set
UnknownCsiInert ==
    (probe.kind = "unknown" /\ last.a.kind = "CsiDispatch" /\ ~probe.pre.mode.decom) =>
        /\ ~screen.panic
        /\ [screen EXCEPT !.refresh = probe.pre.refresh] = probe.pre


(***************************************************************************)
(* SpecInvalidUtf8: byte strings that hold invalid UTF-8                   *)
(***************************************************************************)
\* nothing, 'A' or U+00E9 before the invalid bytes
InvalidPrefixes == {<<>>, <<65>>, <<195, 169>>}

\* U+D800, U+DFFF and 0x110000 encoded, stray continuation bytes 80 and BF,
\* the overlong leads C0 and C1, the bytes F5 and FF, and U+D7FF, U+E000
\* and U+10FFFF, which are valid
InvalidSequences ==
    {<<237, 160, 128>>, <<237, 191, 191>>, <<244, 144, 128, 128>>,
     <<128>>, <<191>>, <<192>>, <<193>>, <<245>>, <<255>>,
     <<237, 159, 191>>, <<238, 128, 128>>, <<244, 143, 191, 191>>}

\* nothing or 'B' after them
InvalidSuffixes == {<<>>, <<66>>}

InitInvalidUtf8 ==
    /\ parser = ParserNew
    /\ screen = ScreenNew(InitWidth, InitHeight)
    /\ \E pre \in InvalidPrefixes, bad \in InvalidSequences, post \in InvalidSuffixes :
          input = pre \o bad \o post
    /\ probe = [kind |-> "invalid", str |-> <<>>, printed |-> <<>>]
    /\ fed = 0
    /\ last = NoLast

NextInvalidUtf8 == ParserFeedInput

SpecInvalidUtf8 == InitInvalidUtf8 /\ [][NextInvalidUtf8]_vars

\* the next byte is 0x80..0xC1 or 0xF5..0xFF and the decoder is in Ground
StrayByteInGround ==
    /\ parser.state = "Anywhere"
    /\ input # <<>>
    /\ parser.utf8.state = "Ground"
    /\ Head(input) \in (128..193) \cup (245..255)

\* the next byte completes a sequence whose value is not a scalar value
CompletesNonScalar ==
    /\ parser.state = "Anywhere"
    /\ input # <<>>
    /\ Head(input) >= 31
    /\ parser.utf8.state = "Tail1"
    /\ ~IsScalar(BitOr(parser.utf8.point, BitAnd(Head(input), 63)))

\* no Print, and the decoder is in Ground with a zero accumulator
Rejected ==
    /\ ~parser'.panic
    /\ last'.a.kind # "Print"
    /\ parser'.utf8 = Utf8New

\* C16: a multi-byte sequence that completes with a value that is not a
\* Unicode scalar value, and a byte 0x80..0xC1 or 0xF5..0xFF in Ground, is
\* reported invalid: no Print is emitted and the decoder is in Ground with
\* a zero accumulator afterwards
C16_InvalidRejected == [][(StrayByteInGround \/ CompletesNonScalar) => Rejected]_vars

\* the part about the bytes that cannot start a sequence
StrayByteRejected == [][StrayByteInGround => Rejected]_vars


(***************************************************************************)
(* SpecDigits: ESC [ followed by decimal digits                            *)
(***************************************************************************)
\* the number of digits
MaxDigits == 6

\* the digit bytes 0 5 6 9
DigitBytes == {48, 53, 54, 57}

DigitStrings == UNION {[1..n -> DigitBytes] : n \in 1..MaxDigits}

InitDigits ==
    /\ parser = ParserNew
    /\ screen = ScreenNew(InitWidth, InitHeight)
    /\ \E ds \in DigitStrings :
          /\ input = <<27, 91>> \o ds
          /\ probe = [kind |-> "digits", str |-> ds, printed |-> <<>>]
    /\ fed = 0
    /\ last = NoLast

NextDigits == ParserFeedInput

SpecDigits == InitDigits /\ [][NextDigits]_vars

\* the number that the first n digit bytes of ds write in decimal
RECURSIVE DecimalValue(_, _)
DecimalValue(ds, n) == IF n = 0 THEN 0 ELSE DecimalValue(ds, n - 1) * 10 + (ds[n] - 48)

\* C17: in CsiParams, after any sequence of digit bytes the current
\* parameter slot holds min(decimal value of the digits, 65535): the
\* accumulation does not wrap and leading zeros do not change the value
C17_NumericSaturation ==
    fed >= 2 =>
        /\ ~parser.panic
        /\ parser.state = "CsiParams"
        /\ parser.index = 0
        /\ parser.csi[0] = Min(DecimalValue(probe.str, fed - 2), U16_MAX)

\* six digits with a leading zero were fed, their value exceeds 65535 and
\* the slot holds 65535
C17_Witness ==
    /\ fed = 8
    /\ probe.str[1] = 48
    /\ DecimalValue(probe.str, 6) > U16_MAX
    /\ parser.csi[0] = U16_MAX


(***************************************************************************)
(* SpecOsc: ESC ] followed by a string around the capacity of the buffer   *)
(***************************************************************************)
\* the bytes sent beyond the capacity of the OSC buffer
OscExtra == 2

\* the lengths of the OSC strings
OscLengths == {1, 2} \cup ((OSC_LEN - 1)..(OSC_LEN + OscExtra))

\* BEL and ST
OscTerminators == {7, 156}

InitOsc ==
    /\ parser = ParserNew
    /\ screen = ScreenNew(InitWidth, InitHeight)
    /\ \E n \in OscLengths, t \in OscTerminators :
          /\ input = <<27, 93>> \o [i \in 1..n |-> 97 + (i % 2)] \o <<t>>
          /\ probe = [kind |-> "osc", str |-> [i \in 1..n |-> 97 + (i % 2)], printed |-> <<>>]
    /\ fed = 0
    /\ last = NoLast

NextOsc == ParserFeedInput

SpecOsc == InitOsc /\ [][NextOsc]_vars

\* a byte that is no terminator arrives while the buffer is full: it is
\* discarded
OscDropsByte ==
    (/\ parser.state = "OscParams"
     /\ input # <<>>
     /\ Head(input) \notin OscTerminators
     /\ parser.index >= OSC_LEN)
        => /\ ~parser'.panic
           /\ parser'.state = "OscParams"
           /\ OscSlice(parser') = OscSlice(parser)

\* a terminator emits OscDispatch with the first OSC_LEN bytes at most
OscTerminates ==
    (/\ parser.state = "OscParams"
     /\ input # <<>>
     /\ Head(input) \in OscTerminators)
        => /\ ~parser'.panic
           /\ parser'.state = "Anywhere"
           /\ last'.a = OscAct(SubSeq(probe.str, 1, Min(Len(probe.str), OSC_LEN)))

\* C18: once the OSC buffer holds 1024 bytes every further byte that is no
\* terminator is discarded, the parser stays in OscParams with the buffer
\* unchanged, and a later BEL or 0x9C emits OscDispatch with the first 1024
\* bytes and returns to Anywhere
C18_OscOverflowDropped == [][OscDropsByte /\ OscTerminates]_vars

\* a string that fits the buffer is dispatched whole by either terminator
OscDispatchesWithinCapacity ==
    [][(Len(probe.str) <= OSC_LEN) => OscTerminates]_vars


(***************************************************************************)
(* SpecDefaults: ICH, IL, DL, DCH, ECH and CBT without a parameter         *)
(***************************************************************************)
\* A B CR; A LF B ESC [ H; A B; nothing
DefaultsPrefixes ==
    {<<65, 66, 13>>, <<65, 10, 66, 27, 91, 72>>, <<65, 66>>, <<>>}

\* @ L M P X Z
DefaultsFinals == {64, 76, 77, 80, 88, 90}

\* the parameter is absent, or the digit 0
DefaultsForms == {<<>>, <<48>>}

\* Terminal::handle_bytes on a whole batch
RECURSIVE RunBytes(_, _, _)
RunBytes(p, s, bytes) ==
    IF bytes = <<>> \/ p.panic \/ s.panic THEN [p |-> p, s |-> s]
    ELSE LET r == handle_byte(p, s, Head(bytes), Tail(bytes) = <<>>, TRUE)
         IN RunBytes(r.p, r.s, Tail(bytes))

InitDefaults ==
    /\ parser = ParserNew
    /\ screen = ScreenNew(InitWidth, InitHeight)
    /\ \E pre \in DefaultsPrefixes, c \in DefaultsFinals, form \in DefaultsForms :
          /\ input = pre \o <<27, 91>> \o form \o <<c>>
          /\ probe = [kind |-> "defaults", one |-> pre \o <<27, 91, 49, c>>]
    /\ fed = 0
    /\ last = NoLast

NextDefaults == HandleByte

SpecDefaults == InitDefaults /\ [][NextDefaults]_vars

\* C19: ICH, IL, DL, DCH, ECH and CBT dispatched with the parameter absent
\* or zero have the same effect on grid, dirty map and cursor as with the
\* parameter 1 (stated for the inputs that the terminal survives with the
\* parameter 1)
C19_ParameterDefaults ==
    LET one == RunBytes(ParserNew, ScreenNew(InitWidth, InitHeight), probe.one).s
    IN (input = <<>> /\ ~one.panic) =>
           /\ ~screen.panic
           /\ screen.buf = one.buf
           /\ screen.dirty = one.dirty
           /\ screen.cursor = one.cursor


(***************************************************************************)
(* SpecDrain: one call of Terminal::read_tty against a PTY that returns    *)
(* batches, Ok(0), WouldBlock, Interrupted or another error                *)
(***************************************************************************)
\* the number of batches the PTY returns during the call
MaxReads == 2

\* the batches: text, a CSI sequence split over two reads, a status report
DrainBatches == {<<65>>, <<65, 66>>, <<27, 91>>, <<49, 72>>, <<27, 91, 54, 110>>}

\* pc: "read" at the read of the loop, "feed" inside handle_bytes, "ok" and
\* "err" after the return; res: the outcome of the last read; got: the bytes
\* the reads returned; seen: the bytes given to the parser; tick flips at
\* every read
InitDrain ==
    /\ parser = ParserNew
    /\ screen = ScreenNew(InitWidth, InitHeight)
    /\ input = <<>>
    /\ fed = 0
    /\ last = NoLast
    /\ probe = [kind |-> "drain", pc |-> "read", res |-> "none", ret |-> "none",
                got |-> <<>>, seen |-> <<>>, tick |-> 0, interrupted |-> FALSE]

\* read returns Ok(bytes) with bytes > 0
ReadBatch ==
    /\ probe.pc = "read"
    /\ fed < MaxReads
    /\ \E batch \in DrainBatches :
          /\ input' = batch
          /\ probe' = [probe EXCEPT !.pc = "feed", !.res = "Ok", !.got = @ \o batch,
                                    !.tick = 1 - @]
    /\ fed' = fed + 1
    /\ UNCHANGED <<parser, screen, last>>

\* read returns Ok(0)
ReadZero ==
    /\ probe.pc = "read"
    /\ probe' = [probe EXCEPT !.res = "Zero", !.tick = 1 - @]
    /\ UNCHANGED <<parser, screen, input, fed, last>>

\* read returns WouldBlock, with more_to_read always set to false
ReadWouldBlock_keeps_reading ==
    /\ probe.pc = "read"
    /\ probe' = [probe EXCEPT !.res = "WouldBlock", !.tick = 1 - @]
    /\ UNCHANGED <<parser, screen, input, fed, last>>

\* read returns WouldBlock: more_to_read = false, the loop ends, Ok(())
ReadWouldBlock ==
    /\ probe.pc = "read"
    /\ probe' = [probe EXCEPT !.pc = "ok", !.res = "WouldBlock", !.ret = "Ok",
                              !.tick = 1 - @]
    /\ UNCHANGED <<parser, screen, input, fed, last>>

\* read returns Interrupted: the loop goes on
ReadInterrupted ==
    /\ probe.pc = "read"
    /\ probe' = [probe EXCEPT !.res = "Interrupted", !.tick = 1 - @,
                              !.interrupted = TRUE]
    /\ UNCHANGED <<parser, screen, input, fed, last>>

\* read returns an error of another kind: return Err(err)
ReadError ==
    /\ probe.pc = "read"
    /\ \E kind \in {"BrokenPipe", "Other"} :
          probe' = [probe EXCEPT !.pc = "err", !.res = kind, !.ret = kind, !.tick = 1 - @]
    /\ UNCHANGED <<parser, screen, input, fed, last>>

\* handle_bytes handles the next byte of the batch; after the last byte the
\* loop of read_tty reads again
DrainByte ==
    /\ probe.pc = "feed"
    /\ input # <<>>
    /\ ~parser.panic
    /\ ~screen.panic
    /\ LET r == handle_byte(parser, screen, Head(input), Tail(input) = <<>>, TRUE)
       IN /\ parser' = r.p
          /\ screen' = r.s
          /\ last' = [byte |-> Head(input), from |-> parser.state,
                      loaded |-> Loaded(parser), a |-> r.a]
    /\ input' = Tail(input)
    /\ probe' = [probe EXCEPT !.seen = Append(@, Head(input)),
                              !.pc = IF Tail(input) = <<>> THEN "read" ELSE "feed"]
    /\ UNCHANGED fed

NextDrain ==
    \/ ReadBatch
    \/ ReadZero
    \/ ReadWouldBlock
    \/ ReadInterrupted
    \/ ReadError
    \/ DrainByte

\* the loop of handle_bytes runs on; the PTY eventually returns WouldBlock
\* or an error that is not retried
SpecDrain ==
    /\ InitDrain
    /\ [][NextDrain]_vars
    /\ WF_vars(DrainByte)
    /\ SF_vars(ReadWouldBlock \/ ReadError)

Crashed == parser.panic \/ screen.panic

\* Ok is returned on WouldBlock only and an error is the error of the read;
\* at every read the batches before it have been fed whole and in order
DrainReturns ==
    /\ probe.pc = "ok" => (probe.res = "WouldBlock" /\ probe.ret = "Ok")
    /\ probe.pc = "err" => (probe.res \notin {"WouldBlock", "Interrupted", "Ok", "Zero"}
                            /\ probe.ret = probe.res)
    /\ ~Crashed => probe.seen \o input = probe.got
    /\ (probe.pc # "feed" /\ ~Crashed) => (input = <<>> /\ probe.seen = probe.got)

\* what a read does to the loop, by its outcome
DrainReads ==
    (probe.pc = "read" /\ probe'.tick # probe.tick) =>
        /\ probe'.res = "WouldBlock" => probe'.pc = "ok"
        /\ probe'.res = "Interrupted" =>
              /\ probe'.pc = "read"
              /\ <<parser', screen', input'>> = <<parser, screen, input>>
              /\ probe'.seen = probe.seen
        /\ probe'.res \in {"BrokenPipe", "Other"} => probe'.pc = "err"
        /\ probe'.res = "Ok" => (probe'.pc = "feed" /\ input' # <<>>)

MaxTicks == 3

\* what one read_tty call receives before WouldBlock
RunBatches == {<<65>>, <<10>>, <<27, 91, 63, 49, 48, 48, 52, 104>>, <<27, 91, 50, 74>>}

\* the window events of one poll: type, button or key, pointer position,
\* exposed size
Event(type, button, x, y) == [type |-> type, button |-> button, x |-> x, y |-> y]

RunEvents ==
    {Event("KeyPress", k, 0, 0) : k \in {"Up", "a"}}
    \cup {Event("ButtonPress", b, 15, 25) : b \in {"Button1", "Button2", "Button4", "Button5"}}
    \cup {Event("ButtonRelease", b, 15, 25) : b \in {"Button1", "Button2"}}
    \cup {Event("ButtonPress", "Button1", 5, 5)}
    \cup {Event("MotionNotify", "None", x, y) : x \in {5, 25}, y \in {5, 25}}
    \cup {Event("Expose", "None", 30, 40), Event("Expose", "None", InitWidth, InitHeight)}
    \cup {Event(t, "None", 0, 0) :
             t \in {"VisibilityNotify", "FocusIn", "FocusOut", "ClientMessage",
                    "DestroyNotify", "UnmapNotify"}}

\* Screen::handle_key for a cursor key and for a key with a lookup string
handle_key(s, key) ==
    IF key = "Up"
    THEN write_tty_raw(s, IF s.mode.decckm THEN <<27, 79, 65>> ELSE <<27, 91, 65>>)
    ELSE write_tty_raw(s, <<97>>)

\* Screen::handle_event
handle_event(s, event) ==
    CASE event.type = "KeyPress" -> handle_key(s, event.button)
      [] event.type = "ButtonPress" ->
            (CASE event.button = "Button4" ->
                      [write_tty_raw(s, <<25>>) EXCEPT !.refresh = TRUE]
               [] event.button = "Button5" ->
                      [write_tty_raw(s, <<5>>) EXCEPT !.refresh = TRUE]
               [] event.button = "Button1" ->
                      [s EXCEPT !.selection =
                                   [start |-> Pos(event.x \div CELL_WIDTH, event.y \div CELL_HEIGHT),
                                    end |-> Pos(event.x \div CELL_WIDTH, event.y \div CELL_HEIGHT),
                                    selecting |-> TRUE],
                                !.refresh = TRUE]
               [] OTHER -> s)
      [] event.type = "ButtonRelease" ->
            IF event.button = "Button1" THEN [s EXCEPT !.selection.selecting = FALSE] ELSE s
      [] event.type = "MotionNotify" ->
            IF s.selection.selecting
            THEN [s EXCEPT !.selection.end =
                               Pos(event.x \div CELL_WIDTH, event.y \div CELL_HEIGHT),
                           !.refresh = TRUE]
            ELSE s
      [] event.type = "Expose" -> handle_expose(s, event.x, event.y)
      [] event.type = "VisibilityNotify" ->
            [s EXCEPT !.dirty = Grid((s.window.height \div CELL_HEIGHT) + 1,
                                     (s.window.width \div CELL_WIDTH) + 1, TRUE),
                      !.refresh = TRUE]
      [] event.type = "FocusIn" ->
            [(IF s.mode.decfocus THEN write_tty_raw(s, <<27, 91, 73>>) ELSE s)
                EXCEPT !.focused = TRUE, !.refresh = TRUE]
      [] event.type = "FocusOut" ->
            [(IF s.mode.decfocus THEN write_tty_raw(s, <<27, 91, 79>>) ELSE s)
                EXCEPT !.focused = FALSE, !.refresh = TRUE]
      [] OTHER -> s

\* pc: "top" at the loop condition, then "read", "events", "draw", "sleep";
\* "ok" and "err" after run has returned
InitRun ==
    /\ parser = ParserNew
    /\ screen = ScreenNew(InitWidth, InitHeight)
    /\ input = <<>>
    /\ fed = 0
    /\ last = NoLast
    /\ probe = [kind |-> "run", pc |-> "top"]

Running == ~parser.panic /\ ~screen.panic

\* while !self.screen.should_close
RunTop ==
    /\ probe.pc = "top"
    /\ Running
    /\ probe' = [probe EXCEPT !.pc = IF screen.should_close THEN "ok" ELSE "read"]
    /\ UNCHANGED <<parser, screen, input, fed, last>>

\* self.read_tty()? with nothing to read
RunReadIdle ==
    /\ probe.pc = "read"
    /\ Running
    /\ probe' = [probe EXCEPT !.pc = "events"]
    /\ UNCHANGED <<parser, screen, input, fed, last>>

\* self.read_tty()? with one batch before WouldBlock
RunReadBatch ==
    /\ probe.pc = "read"
    /\ Running
    /\ fed < MaxTicks
    /\ \E batch \in RunBatches :
          LET r == RunBytes(parser, screen, batch)
          IN /\ parser' = r.p
             /\ screen' = r.s
    /\ fed' = fed + 1
    /\ probe' = [probe EXCEPT !.pc = "events"]
    /\ UNCHANGED <<input, last>>

\* self.read_tty()? with a read error that is not retried
RunReadError ==
    /\ probe.pc = "read"
    /\ Running
    /\ probe' = [probe EXCEPT !.pc = "err"]
    /\ UNCHANGED <<parser, screen, input, fed, last>>

\* poll_event returns None
RunPollNone ==
    /\ probe.pc = "events"
    /\ Running
    /\ probe' = [probe EXCEPT !.pc = "draw"]
    /\ UNCHANGED <<parser, screen, input, fed, last>>

\* poll_event returns events, each goes to handle_event
RunPollEvent ==
    /\ probe.pc = "events"
    /\ Running
    /\ fed < MaxTicks
    /\ \E event \in RunEvents : screen' = handle_event(screen, event)
    /\ fed' = fed + 1
    /\ probe' = [probe EXCEPT !.pc = "draw"]
    /\ UNCHANGED <<parser, input, last>>

\* if self.screen.refresh { self.screen.draw()? }
RunDraw ==
    /\ probe.pc = "draw"
    /\ Running
    /\ screen' = IF screen.refresh THEN draw(screen) ELSE screen
    /\ probe' = [probe EXCEPT !.pc = "sleep"]
    /\ UNCHANGED <<parser, input, fed, last>>

\* thread::sleep, then the next tick
RunSleep ==
    /\ probe.pc = "sleep"
    /\ Running
    /\ probe' = [probe EXCEPT !.pc = "top"]
    /\ UNCHANGED <<parser, screen, input, fed, last>>

NextRun ==
    \/ RunTop
    \/ RunReadIdle
    \/ RunReadBatch
    \/ RunReadError
    \/ RunPollNone
    \/ RunPollEvent
    \/ RunDraw
    \/ RunSleep

\* the loop keeps ticking
SpecRun == InitRun /\ [][NextRun]_vars /\ WF_vars(NextRun)

\* C21: the event loop in run can end without an error: should_close
\* becomes true through a handled event or a dispatched action, and the loop
\* then exits at the top of the tick; a run that no error and no panic ends
\* comes to that exit
C21_CleanShutdown ==
    \/ <>(screen.should_close /\ <>(probe.pc = "ok"))
    \/ <>(probe.pc = "err" \/ ~Running)

\* no event and no action sets should_close, and run never returns Ok
ShouldCloseNeverSet == ~screen.should_close /\ probe.pc # "ok"

(***************************************************************************)
(* SpecCsiBytes: one CSI sequence with a private marker or a control byte  *)
(* among its parameters, byte by byte through Parser::advance              *)
(***************************************************************************)
\* '<', '=', '>', '?'
PrivateMarkers == 60..63

\* the controls that may arrive inside a sequence (ESC starts a new one)
CsiControls == 0..15

CsiBytesBefore == {<<>>, <<49>>, <<49, 59>>, <<32>>}

CsiBytesAfter == {<<>>, <<50, 53>>, <<59, 55>>}

CsiBytesFinals == {99, 104}

InitCsiBytes ==
    /\ parser = ParserNew
    /\ screen = ScreenNew(InitWidth, InitHeight)
    /\ \E pre \in CsiBytesBefore, b \in PrivateMarkers \cup CsiControls,
          post \in CsiBytesAfter, c \in CsiBytesFinals :
          /\ input = <<27, 91>> \o pre \o <<b>> \o post \o <<c>>
          /\ probe = [kind |-> "csibytes", b |-> b, printed |-> <<>>,
                      plain |-> <<27, 91>> \o pre \o post \o <<c>>]
    /\ fed = 0
    /\ last = NoLast

NextCsiBytes == ParserFeedInput

SpecCsiBytes == InitCsiBytes /\ [][NextCsiBytes]_vars

\* the parser after a string of bytes, with the last action
RECURSIVE AdvanceAll(_, _, _)
AdvanceAll(p, a, bytes) ==
    IF bytes = <<>> \/ p.panic THEN [p |-> p, a |-> a]
    ELSE LET r == advance(p, Head(bytes))
         IN AdvanceAll(r.p, r.a, Tail(bytes))

\* the byte handled by this step is b, met in state CsiParams
CsiParamsTakes(bs) ==
    /\ parser.state = "CsiParams"
    /\ input # <<>>
    /\ Head(input) \in bs
    /\ input' = Tail(input)

MarkerStep ==
    CsiParamsTakes(PrivateMarkers) =>
        /\ InterSlice(parser') = Append(InterSlice(parser), Head(input))
        /\ parser'.csi = parser.csi
        /\ parser'.index = parser.index

MarkerDispatch ==
    (probe.b \in PrivateMarkers /\ input = <<>> /\ probe.plain = <<27, 91, 50, 53, 104>>) =>
        last.a = CsiAct(<<25>>, <<probe.b>>, 104)

\* C22: in CsiParams each of '<', '=', '>', '?' is appended to the
\* intermediates and leaves the parameter slots and the parameter index
\* unchanged; CSI ? 25 h dispatches with parameters [25] and intermediates
\* ['?']
C22_PrivateMarkers == [][MarkerStep]_vars /\ []MarkerDispatch

\* '?' changes nothing in the parser, '<', '=', '>' are taken as the digits
\* 12, 13 and 14 of the current parameter
MarkerAsCoded ==
    /\ CsiParamsTakes({63}) => parser' = parser
    /\ CsiParamsTakes(60..62) =>
          /\ parser'.iindex = parser.iindex
          /\ parser'.index = parser.index
          /\ \/ parser'.panic
             \/ parser'.csi[parser.index] =
                   Min(parser.csi[parser.index] * 10 + Head(input) - 48, U16_MAX)

MarkersAreDigits == [][MarkerAsCoded]_vars

ControlStep ==
    CsiParamsTakes(CsiControls) =>
        /\ last'.a = ExecuteAct(Head(input))
        /\ parser' = parser

ControlDispatch ==
    (probe.b \in CsiControls /\ input = <<>> /\ ~parser.panic) =>
        last.a = AdvanceAll(ParserNew, NoAction, probe.plain).a

\* C24: in CsiParams every byte in 0x00..0x0F yields Execute(byte) while the
\* parser stays in CsiParams with parameters and intermediates unchanged,
\* and the final byte dispatches as if the control had not been sent
C24_ControlsInsideCsi == [][ControlStep]_vars /\ []ControlDispatch

\* the same for the bytes 0x00..0x0E; 0x0F changes nothing and yields no
\* action
ControlAsCoded ==
    /\ CsiParamsTakes(0..14) => (last'.a = ExecuteAct(Head(input)) /\ parser' = parser)
    /\ CsiParamsTakes({15}) => (last'.a = NoAction /\ parser' = parser)

ControlsBelowSI == [][ControlAsCoded]_vars /\ []ControlDispatch

(***************************************************************************)
(* SpecGround: a C0 control met in state Anywhere                          *)
(***************************************************************************)
\* 0x00..0x1F without ESC
C0Controls == (0..31) \ {ESC}

\* nothing, a character, the lead byte of a two-byte character, a finished
\* CSI sequence
GroundBefore == {<<>>, <<65>>, <<195>>, <<27, 91, 72>>}

GroundAfter == {<<>>, <<66>>, <<169>>}

InitGround ==
    /\ parser = ParserNew
    /\ screen = ScreenNew(InitWidth, InitHeight)
    /\ \E pre \in GroundBefore, b \in C0Controls, post \in GroundAfter :
          /\ input = pre \o <<b>> \o post
          /\ probe = [kind |-> "ground", b |-> b, printed |-> <<>>]
    /\ fed = 0
    /\ last = NoLast

NextGround == ParserFeedInput

SpecGround == InitGround /\ [][NextGround]_vars

AnywhereTakes(bs) ==
    /\ parser.state = "Anywhere"
    /\ input # <<>>
    /\ Head(input) \in bs
    /\ input' = Tail(input)

GroundControlStep ==
    AnywhereTakes(C0Controls) =>
        /\ last'.a = ExecuteAct(Head(input))
        /\ parser'.utf8 = parser.utf8

\* C23: in state Anywhere every byte in 0x00..0x1F other than 0x1B yields
\* exactly Execute(byte), is never passed to the UTF-8 decoder and never
\* yields Print
C23_C0Execute == [][GroundControlStep]_vars

\* the same for 0x00..0x1E; 0x1F goes to the decoder
GroundAsCoded ==
    /\ AnywhereTakes(C0Controls \ {31}) =>
          (last'.a = ExecuteAct(Head(input)) /\ parser' = parser)
    /\ AnywhereTakes({31}) =>
          last'.a.kind \in {"Print", "None"}

C0BelowUS == [][GroundAsCoded]_vars

(***************************************************************************)
(* SpecSuSd: CSI n S and CSI n T on a window with text                     *)
(***************************************************************************)
\* the number of actions of a run
MaxSuSd == 4

\* the largest count sent with S or T
MaxCount == 2

SuSdRows == 3

SuSdMenu == {PrintAct(65), PrintAct(66), ExecuteAct(10), ExecuteAct(13)}

\* CSI n S or CSI n T; the screen before it and the sequence are kept
SuSdStep ==
    /\ ~screen.panic
    /\ fed < MaxSuSd
    /\ \E n \in 1..MaxCount, c \in {83, 84} :
          /\ screen' = handle_action(screen, Csi(<<n>>, c), TRUE)
          /\ last' = [NoLast EXCEPT !.a = Csi(<<n>>, c)]
          /\ probe' = [kind |-> "susd", pre |-> screen, n |-> n, c |-> c]
    /\ fed' = fed + 1
    /\ UNCHANGED <<parser, input>>

NextSuSd ==
    \/ Step(SuSdMenu, MaxSuSd)
    \/ SuSdStep

SpecSuSd == InitScreen(InitWidth, SuSdRows * CELL_HEIGHT) /\ [][NextSuSd]_vars

\* the grid after k calls of scroll_up(top) or scroll_down(bottom)
Repeated(pre, c, k) ==
    IF c = 83 THEN scroll_up_n(pre, pre.scrolling_region.top, k)
    ELSE scroll_down_n(pre, pre.scrolling_region.bottom, k)

\* C25: for every n >= 1, CSI n S has the same effect on the grid as n
\* consecutive scroll_up(top) calls and CSI n T the same effect as n
\* consecutive scroll_down(bottom) calls
C25_SuSdRepeat ==
    (probe.kind = "susd" /\ ~screen.panic) =>
        screen.buf = Repeated(probe.pre, probe.c, probe.n).buf

\* whatever n is, the effect is that of one call
SuSdOnce ==
    (probe.kind = "susd" /\ ~screen.panic) =>
        screen.buf = Repeated(probe.pre, probe.c, 1).buf

(***************************************************************************)
(* SpecStbm: CSI r without parameters sent as bytes, then window resizes   *)
(***************************************************************************)
\* the number of Expose events after the sequence
MaxExposes == 2

\* what the PTY sent before: nothing, text, a region with parameters
StbmPrefixes == {<<>>, <<65, 10, 66>>, Csi2(2, 3, 114), Csi2(1, 2, 114) \o <<10, 10, 65>>}

StbmSizes == {<<20, 40>>, <<20, 60>>, <<30, 80>>}

InitStbm ==
    /\ parser = ParserNew
    /\ \E sz \in StbmSizes : screen = ScreenNew(sz[1], sz[2])
    /\ \E pre \in StbmPrefixes : input = pre \o <<27, 91, 114>>
    /\ fed = 0
    /\ last = NoLast
    /\ probe = [kind |-> "stbm"]

\* an Expose event after the sequence has been handled
StbmExpose ==
    /\ input = <<>>
    /\ ~parser.panic
    /\ ~screen.panic
    /\ fed < MaxExposes
    /\ \E sz \in StbmSizes :
          /\ screen' = handle_expose(screen, sz[1], sz[2])
          /\ last' = [NoLast EXCEPT !.a = ExposeAct(sz[1], sz[2])]
    /\ fed' = fed + 1
    /\ UNCHANGED <<parser, input, probe>>

NextStbm ==
    \/ HandleByte
    \/ StbmExpose

SpecStbm == InitStbm /\ [][NextStbm]_vars

\* the parameterless CSI r has been dispatched (and the window may have been
\* resized since)
StbmDone == input = <<>> /\ ~parser.panic /\ ~screen.panic

FullRegion(s) ==
    /\ s.scrolling_region.top = 0
    /\ s.scrolling_region.bottom = (s.window.height \div CELL_HEIGHT) - 1

\* C26: after CSI r dispatched with no parameters scroll_set is false and
\* the region is (0, rows-1); a later window resize re-derives the region
\* bottom from the new height
C26_ScrollSet == StbmDone => (~screen.scroll_set /\ FullRegion(screen))

\* the sequence itself sets the full region, and sets scroll_set
StbmSetsFullRegion == (StbmDone /\ fed = 0) => (screen.scroll_set /\ FullRegion(screen))

\* a resize after it leaves the region as it was
StbmResizeKeeps ==
    (StbmDone /\ input' = <<>> /\ fed' = fed + 1) =>
        screen'.scrolling_region = screen.scrolling_region

StbmRegionFrozen == [][StbmResizeKeeps]_vars

(***************************************************************************)
(* SpecIdem: CSI ?1049h and CSI ?1049l in any order among other actions    *)
(***************************************************************************)
\* the number of actions of a run
MaxIdem == 5

IdemMenu ==
    {PrintAct(65), Csi(<<2, 2>>, 72), Csi(<<1, 1>>, 114), Csi(<<6>>, 104),
     EscAct(<<>>, 68), Csi(<<1049>>, 104), Csi(<<1049>>, 108)}

\* the number of switch_screen calls csi_dispatch makes for the action a on
\* the screen s
Swaps1049(s, a) ==
    IF a.kind = "CsiDispatch" /\ Param(a.params, 0, 0) = 1049
       /\ \/ a.c = 104 /\ ~s.mode.decalt
          \/ a.c = 108 /\ s.mode.decalt
    THEN 1 ELSE 0

\* one action; the screen before it, the action and the number of swaps so
\* far are kept
IdemStep ==
    /\ ~screen.panic
    /\ fed < MaxIdem
    /\ \E a \in IdemMenu :
          /\ screen' = handle_action(screen, a, TRUE)
          /\ last' = [NoLast EXCEPT !.a = a]
          /\ probe' = [kind |-> "idem", pre |-> screen, a |-> a,
                       swaps |-> probe.swaps + Swaps1049(screen, a)]
    /\ fed' = fed + 1
    /\ UNCHANGED <<parser, input>>

InitIdem ==
    /\ parser = ParserNew
    /\ screen = ScreenNew(InitWidth, InitHeight)
    /\ input = <<>>
    /\ fed = 0
    /\ last = NoLast
    /\ probe = [kind |-> "idem", pre |-> ScreenNew(InitWidth, InitHeight),
                a |-> NoAction, swaps |-> 0]

NextIdem == IdemStep

SpecIdem == InitIdem /\ [][NextIdem]_vars

\* the last action was CSI ?1049h on the alternate screen or CSI ?1049l on
\* the primary screen
Redundant1049 ==
    /\ probe.a.kind = "CsiDispatch"
    /\ Param(probe.a.params, 0, 0) = 1049
    /\ \/ probe.a.c = 104 /\ probe.pre.mode.decalt
       \/ probe.a.c = 108 /\ ~probe.pre.mode.decalt

\* the cursor is on a cell of the window
CursorOnGrid(s) ==
    /\ s.cursor.position.y \in 0..(Rows(s) - 1)
    /\ s.cursor.position.x \in 0..(Cols(s) - 1)

\* the screen apart from the refresh flag that handle_bytes sets
Content(s) == [s EXCEPT !.refresh = FALSE]

AltIffOddSwaps == screen.mode.decalt <=> (probe.swaps % 2 = 1)

\* a counted swap exchanged the grids, an action that was not counted left
\* the alternate grid alone
SwapsObserved ==
    ~screen.panic =>
        IF Swaps1049(probe.pre, probe.a) = 1
        THEN screen.buf = probe.pre.alt.buf /\ screen.alt.buf = probe.pre.buf
        ELSE screen.alt = probe.pre.alt

\* C27: CSI ?1049h on the alternate screen and CSI ?1049l on the primary
\* screen perform no swap and change nothing; the ALT flag is true exactly
\* when the number of performed swaps is odd
C27_Idempotent1049 ==
    /\ AltIffOddSwaps
    /\ (Redundant1049 /\ ~screen.panic /\ CursorOnGrid(probe.pre)) =>
          Content(screen) = Content(probe.pre)

\* the same, with the cursor left out of the comparison
Idempotent1049ButCursor ==
    /\ AltIffOddSwaps
    /\ SwapsObserved
    /\ (Redundant1049 /\ ~screen.panic) =>
          [Content(screen) EXCEPT !.cursor = probe.pre.cursor] = Content(probe.pre)

C27_Witness ==
    /\ Redundant1049
    /\ probe.a.c = 104
    /\ probe.swaps = 3
    /\ ~screen.panic
    /\ CursorOnGrid(probe.pre)

(***************************************************************************)
(* SpecPalette: CSI 38;5;idx m and CSI 48;5;idx m after other SGR codes    *)
(***************************************************************************)
\* the number of actions of a run
MaxPalette == 3

PaletteBaseMenu == {PrintAct(65), Csi(<<31>>, 109), Csi(<<44>>, 109), Csi(<<7>>, 109)}

PaletteIndexes == 0..255

PaletteBaseStep ==
    /\ probe.kind # "palette"
    /\ Step(PaletteBaseMenu, MaxPalette)

\* CSI 38;5;idx m or CSI 48;5;idx m; the screen before it is kept
PaletteStep ==
    /\ ~screen.panic
    /\ fed < MaxPalette
    /\ probe.kind # "palette"
    /\ \E sel \in {38, 48}, idx \in PaletteIndexes, xftOk \in BOOLEAN :
          /\ screen' = handle_action(screen, Csi(<<sel, 5, idx>>, 109), xftOk)
          /\ last' = [NoLast EXCEPT !.a = Csi(<<sel, 5, idx>>, 109)]
          /\ probe' = [kind |-> "palette", pre |-> screen, sel |-> sel, idx |-> idx,
                       xftOk |-> xftOk]
    /\ fed' = fed + 1
    /\ UNCHANGED <<parser, input>>

NextPalette ==
    \/ PaletteBaseStep
    \/ PaletteStep

SpecPalette == InitScreen(InitWidth, InitHeight) /\ [][NextPalette]_vars

\* C28: for every idx in 0..255, CSI 38;5;idx m and CSI 48;5;idx m leave
\* the active attribute exactly as it was; neither the 5 nor idx is
\* interpreted as an SGR code of its own
C28_PaletteIgnored ==
    (probe.kind = "palette" /\ ~screen.panic) => screen.attr = probe.pre.attr

\* the sequence acts as CSI idx m does
PaletteIndexIsCode ==
    (probe.kind = "palette" /\ ~screen.panic) =>
        screen.attr = handle_action(probe.pre, Csi(<<probe.idx>>, 109), probe.xftOk).attr

(***************************************************************************)
(* SpecCbt: CSI n Z from any column, with tab stops set and cleared        *)
(***************************************************************************)
\* the number of actions of a run
MaxCbt == 4

\* the largest count sent with Z
MaxBack == 2

\* the width of the window in pixels: as many columns as tab stops
CbtWidth == 100

\* CUP to the columns 1, 4, 9 and 10, HTS, TBC 0 and TBC 3
CbtMenu ==
    {Csi(<<1, 1>>, 72), Csi(<<1, 4>>, 72), Csi(<<1, 9>>, 72), Csi(<<1, 10>>, 72),
     EscAct(<<>>, 72), Csi(<<0>>, 103), Csi(<<3>>, 103)}

\* CSI n Z; the screen before it and n are kept
CbtStep ==
    /\ ~screen.panic
    /\ fed < MaxCbt
    /\ probe.kind # "cbt"
    /\ \E n \in 1..MaxBack :
          /\ screen' = handle_action(screen, Csi(<<n>>, 90), TRUE)
          /\ last' = [NoLast EXCEPT !.a = Csi(<<n>>, 90)]
          /\ probe' = [kind |-> "cbt", pre |-> screen, n |-> n]
    /\ fed' = fed + 1
    /\ UNCHANGED <<parser, input>>

CbtBaseStep ==
    /\ probe.kind # "cbt"
    /\ Step(CbtMenu, MaxCbt)

NextCbt ==
    \/ CbtBaseStep
    \/ CbtStep

SpecCbt == InitScreen(CbtWidth, InitHeight) /\ [][NextCbt]_vars

\* the tab stops to the left of column x
StopsLeft(s, x) == {t \in 0..(TabMax - 1) : t < x /\ s.tabs[t]}

\* the n-th stop to the left of column x, or column 0
NthStopLeft(s, x, n) ==
    IF Cardinality(StopsLeft(s, x)) < n THEN 0
    ELSE CHOOSE t \in StopsLeft(s, x) :
            Cardinality({u \in StopsLeft(s, x) : u >= t}) = n

\* C29: CSI n Z moves the cursor left to the n-th previous tab stop or to
\* column 0 when fewer than n stops lie to the left; it never makes x
\* negative and never reads the tab vector out of range
C29_CbtClamped ==
    probe.kind = "cbt" =>
        /\ ~screen.panic
        /\ screen.cursor.position.x =
              NthStopLeft(probe.pre, probe.pre.cursor.position.x, probe.n)

\* with n stops to the left the cursor lands on the n-th of them; with
\* fewer the tab vector is read at index -1
CbtWithStops ==
    probe.kind = "cbt" =>
        IF Cardinality(StopsLeft(probe.pre, probe.pre.cursor.position.x)) >= probe.n
        THEN /\ ~screen.panic
             /\ screen.cursor.position.x =
                   NthStopLeft(probe.pre, probe.pre.cursor.position.x, probe.n)
        ELSE screen.panic

(***************************************************************************)
(* SpecPrintEdge: Print at and beyond the right edge, in replace and in    *)
(* insert mode                                                             *)
(***************************************************************************)
\* the number of actions of a run
MaxEdge == 5

\* CUP to column 1 and to the column after the last, CUF, IRM on, text
EdgeMenu ==
    {Csi(<<1, 1>>, 72), Csi(<<2, 3>>, 72), Csi(<<1>>, 67), Csi(<<4>>, 104), PrintAct(66)}

\* Print 'A'; the screen before it is kept
EdgePrintStep ==
    /\ ~screen.panic
    /\ fed < MaxEdge
    /\ probe.kind # "edge"
    /\ screen' = handle_action(screen, PrintAct(65), TRUE)
    /\ last' = [NoLast EXCEPT !.a = PrintAct(65)]
    /\ probe' = [kind |-> "edge", pre |-> screen]
    /\ fed' = fed + 1
    /\ UNCHANGED <<parser, input>>

EdgeBaseStep ==
    /\ probe.kind # "edge"
    /\ Step(EdgeMenu, MaxEdge)

NextEdge ==
    \/ EdgeBaseStep
    \/ EdgePrintStep

SpecEdge == InitScreen(InitWidth, InitHeight) /\ [][NextEdge]_vars

\* a Print has been dispatched with the cursor on a row of the window
EdgePrinted ==
    /\ probe.kind = "edge"
    /\ probe.pre.cursor.position.y \in 0..(Rows(probe.pre) - 1)
    /\ probe.pre.cursor.position.x >= 0

\* C30: Print writes its cell at column min(x, cols-1) of the cursor row,
\* never at a column >= cols and never out of range, in both replace and
\* insert mode, and afterwards x <= cols
C30_PrintClamps ==
    EdgePrinted =>
        LET pre == probe.pre
            y == pre.cursor.position.y
            col == Min(pre.cursor.position.x, Cols(pre) - 1)
        IN /\ ~screen.panic
           /\ screen.buf[y + 1][col + 1] = Char(65, pre.attr)
           /\ \A c \in (Cols(pre) + 1)..Len(screen.buf[y + 1]) :
                 screen.buf[y + 1][c] = pre.buf[y + 1][c]
           /\ screen.cursor.position.x <= Cols(pre)

\* the cell is written at column x itself, also at x = cols; beyond that
\* replace mode indexes out of range, and x is left where it was
PrintWritesAtX ==
    EdgePrinted =>
        LET pre == probe.pre
            y == pre.cursor.position.y
            x == pre.cursor.position.x
        IN IF x <= Cols(pre)
           THEN /\ ~screen.panic
                /\ screen.buf[y + 1][x + 1] = Char(65, pre.attr)
                /\ screen.cursor.position.x = Min(x + 1, Cols(pre))
           ELSE IF ~pre.mode.decim THEN screen.panic
           ELSE screen.panic \/ (screen.buf = pre.buf /\ screen.cursor = pre.cursor)

(***************************************************************************)
(* SpecOrigin: origin mode with cursor movements of every kind of action   *)
(***************************************************************************)
\* the number of actions of a run
MaxOrigin == 4

OriginRows == 3

\* text, LF, DECOM on and off, two regions, CUP, CUU, IND, NEL, RI
OriginMenu ==
    {PrintAct(65), ExecuteAct(10), Csi(<<6>>, 104), Csi(<<6>>, 108),
     Csi(<<1, 1>>, 114), Csi(<<2, 3>>, 114), Csi(<<3, 1>>, 72), Csi(<<1>>, 65),
     EscAct(<<>>, 68), EscAct(<<>>, 69), EscAct(<<>>, 77)}

NextOrigin == Step(OriginMenu, MaxOrigin)

SpecOrigin == InitScreen(InitWidth, OriginRows * CELL_HEIGHT) /\ [][NextOrigin]_vars

CursorInRegion(s) ==
    /\ s.scrolling_region.top <= s.cursor.position.y
    /\ s.cursor.position.y <= s.scrolling_region.bottom

\* C31: in every state where origin mode is set, after each dispatched
\* action of any kind the cursor row satisfies top <= y <= bottom
C31_OriginClamp ==
    (screen.mode.decom /\ ~screen.panic /\ last.a.kind # "None") => CursorInRegion(screen)

\* the clamp is made after the CSI sequences only
OriginClampAfterCsi ==
    (screen.mode.decom /\ ~screen.panic /\ last.a.kind = "CsiDispatch") =>
        CursorInRegion(screen)

(***************************************************************************)
(* The draw pass of the event loop (SpecRun) and the dirty map             *)
(***************************************************************************)
\* p comes before q in row-major order
Before(p, q) == p.y < q.y \/ (p.y = q.y /\ p.x <= q.x)

\* the two ends of the selection in row-major order
SelLo(s) == IF Before(s.selection.start, s.selection.end)
            THEN s.selection.start ELSE s.selection.end

SelHi(s) == IF Before(s.selection.start, s.selection.end)
            THEN s.selection.end ELSE s.selection.start

\* the cell (y, x) is highlighted: from the first end to the second, which
\* is left out when both are on one row
Inside(s, y, x) ==
    LET lo == SelLo(s)
        hi == SelHi(s)
    IN /\ lo # hi
       /\ IF lo.y = hi.y THEN y = lo.y /\ lo.x <= x /\ x < hi.x
          ELSE \/ y = lo.y /\ x >= lo.x
               \/ y = hi.y /\ x <= hi.x
               \/ lo.y < y /\ y < hi.y

VisibleRow(s, y) == y * CELL_HEIGHT < s.window.height

\* the dirty map right after a draw pass
DrawnClean(s) ==
    /\ ~s.refresh
    /\ \A y \in 0..(Len(s.buf) - 1) : \A x \in 0..(Len(s.buf[y + 1]) - 1) :
          VisibleRow(s, y) =>
             (s.dirty[y + 1][x + 1] <=>
                 (Inside(s, y, x) \/ Pos(x, y) = s.cursor.position))

\* the draw step of a tick that has something to draw, and draws it
DrawPass ==
    /\ probe.kind = "run"
    /\ probe.pc = "draw"
    /\ screen.refresh
    /\ probe'.pc = "sleep"
    /\ ~screen'.panic

\* C32: after a draw pass every cell inside the normalised selection is
\* dirty, every other cell on a visible row is clean except the cell under
\* the cursor, and refresh is false; a cell that left the selection is
\* clean after the draw
C32_DrawDirty == [][DrawPass => DrawnClean(screen')]_vars

\* a draw has been made with two rows of the window highlighted in part
C32_Witness ==
    /\ probe.kind = "run"
    /\ probe.pc = "sleep"
    /\ ~screen.panic
    /\ DrawnClean(screen)
    /\ Inside(screen, 1, 1)
    /\ ~Inside(screen, 1, 2)
    /\ screen.dirty[2][2]
    /\ ~screen.dirty[2][3]

(***************************************************************************)
(* SpecLf: LF, VT and FF with the cursor in a scrolling region             *)
(***************************************************************************)
\* the number of actions of a run
MaxLf == 5

LfRows == 3

\* text, a background colour, two regions, CUP to the rows 2 and 3, LF
LfMenu ==
    {PrintAct(65), PrintAct(66), Csi(<<44>>, 109), Csi(<<2, 3>>, 114), Csi(<<1, 2>>, 114),
     Csi(<<2, 1>>, 72), Csi(<<3, 2>>, 72), ExecuteAct(10)}

\* LF, VT or FF; the screen before it is kept
LfStep ==
    /\ ~screen.panic
    /\ fed < MaxLf
    /\ probe.kind # "lf"
    /\ \E byte \in {10, 11, 12} :
          /\ screen' = handle_action(screen, ExecuteAct(byte), TRUE)
          /\ last' = [NoLast EXCEPT !.a = ExecuteAct(byte)]
    /\ probe' = [kind |-> "lf", pre |-> screen]
    /\ fed' = fed + 1
    /\ UNCHANGED <<parser, input>>

LfBaseStep ==
    /\ probe.kind # "lf"
    /\ Step(LfMenu, MaxLf)

NextLf ==
    \/ LfBaseStep
    \/ LfStep

SpecLf == InitScreen(InitWidth, LfRows * CELL_HEIGHT) /\ [][NextLf]_vars

\* a line feed has been executed with the cursor in a valid region
LfDone ==
    /\ probe.kind = "lf"
    /\ RegionValid(probe.pre)
    /\ probe.pre.cursor.position.y >= 0
    /\ probe.pre.cursor.position.y <= probe.pre.scrolling_region.bottom

\* the rows of the grid after the region of pre has lost its first row and
\* got a blank last row
LfScrolled(pre, s) ==
    LET top == pre.scrolling_region.top
        bottom == pre.scrolling_region.bottom
    IN /\ Len(s.buf) = Len(pre.buf)
       /\ \A r \in 0..(Len(pre.buf) - 1) :
             s.buf[r + 1] =
                IF r < top \/ r > bottom THEN pre.buf[r + 1]
                ELSE IF r < bottom THEN pre.buf[r + 2]
                ELSE [x \in 1..(Cols(pre) + 1) |-> Char(SPACE, pre.attr)]
       /\ s.cursor = pre.cursor
       /\ s.dirty = [y \in 1..(Rows(pre) + 1) |-> [x \in 1..(Cols(pre) + 1) |-> TRUE]]
       /\ [s EXCEPT !.buf = pre.buf, !.dirty = pre.dirty, !.refresh = pre.refresh] = pre

\* C33: LF, VT or FF with the cursor on row bottom of a valid region moves
\* the rows top+1..bottom up by one, blanks row bottom with the active
\* attribute, leaves the rows outside the region and the cursor unchanged
\* and sets the whole dirty map; with the cursor above bottom only y is
\* incremented
C33_LineFeed ==
    LfDone =>
        /\ ~screen.panic
        /\ IF probe.pre.cursor.position.y = probe.pre.scrolling_region.bottom
           THEN LfScrolled(probe.pre, screen)
           ELSE [screen EXCEPT !.refresh = probe.pre.refresh] =
                   [probe.pre EXCEPT !.cursor.position.y = @ + 1]

\* a line feed at the bottom of the region (1, 2) with text in its rows and
\* a background colour set
C33_Witness ==
    /\ LfDone
    /\ probe.pre.scrolling_region = [top |-> 1, bottom |-> 2]
    /\ probe.pre.cursor.position.y = 2
    /\ probe.pre.attr # DefaultAttr
    /\ probe.pre.buf[3] # probe.pre.buf[2]
    /\ probe.pre.buf[3][2].byte # SPACE
    /\ screen.buf[2] = probe.pre.buf[3]

\* C34: in every state reachable by any byte stream and any resize the
\* scrolling region satisfies 0 <= top <= bottom < number of grid rows
C34_RegionValid == ~screen.panic => RegionValid(screen)

(***************************************************************************)
(* SpecStale: actions that change cells, and draw passes between them      *)
(***************************************************************************)
\* the number of actions and draw passes of a run
MaxStale == 4

\* text, a colour, CR, LF, ED, EL, ICH, DCH, IL, DL, SU, SD, ECH, RIS, DECALN,
\* the alternate screen and back
StaleMenu ==
    {PrintAct(65), Csi(<<44>>, 109), ExecuteAct(13), ExecuteAct(10),
     Csi(<<2>>, 74), Csi(<<0>>, 75), Csi(<<1>>, 64), Csi(<<1>>, 80), Csi(<<1>>, 76),
     Csi(<<1>>, 77), Csi(<<1>>, 83), Csi(<<1>>, 84), Csi(<<1>>, 88),
     EscAct(<<>>, 99), EscAct(<<35>>, 56), Csi(<<1049>>, 104), Csi(<<1049>>, 108)}

InitStale ==
    /\ parser = ParserNew
    /\ screen = ScreenNew(InitWidth, InitHeight)
    /\ input = <<>>
    /\ fed = 0
    /\ last = NoLast
    /\ probe = [kind |-> "stale", drawn |-> ScreenNew(InitWidth, InitHeight).buf,
                decaln |-> FALSE]

\* one action; the grid of the last draw pass is kept
StaleStep ==
    /\ ~screen.panic
    /\ fed < MaxStale
    /\ \E a \in StaleMenu :
          /\ screen' = handle_action(screen, a, TRUE)
          /\ last' = [NoLast EXCEPT !.a = a]
          /\ probe' = [probe EXCEPT !.decaln = @ \/ a = EscAct(<<35>>, 56)]
    /\ fed' = fed + 1
    /\ UNCHANGED <<parser, input>>

\* a draw pass: it paints the dirty cells of the visible rows (nothing is
\* selected here)
StaleDraw ==
    /\ ~screen.panic
    /\ fed < MaxStale
    /\ screen.refresh
    /\ screen' = draw(screen)
    /\ last' = [NoLast EXCEPT !.a = DrawAct]
    /\ probe' = [probe EXCEPT !.drawn =
                    [y \in 1..Len(screen.buf) |-> [x \in 1..Len(screen.buf[y]) |->
                        IF (y - 1) * CELL_HEIGHT < screen.window.height /\ screen.dirty[y][x]
                        THEN screen.buf[y][x] ELSE probe.drawn[y][x]]]]
    /\ fed' = fed + 1
    /\ UNCHANGED <<parser, input>>

NextStale ==
    \/ StaleStep
    \/ StaleDraw

SpecStale == InitStale /\ [][NextStale]_vars

\* every cell of a visible row that differs from what was painted is dirty
NoStaleCell ==
    \A y \in 1..Len(screen.buf) : \A x \in 1..Len(screen.buf[y]) :
       (/\ (y - 1) * CELL_HEIGHT < screen.window.height
        /\ screen.buf[y][x] # probe.drawn[y][x])
          => screen.dirty[y][x]

\* C35: in every reachable state a cell whose value differs from the value
\* it had at the last draw is dirty
C35_NoStalePixels == ~screen.panic => NoStaleCell

\* the same as long as no ESC # 8 has come
NoStaleWithoutDecaln == (~screen.panic /\ ~probe.decaln) => NoStaleCell

\* the step feeds a printable ASCII byte in state Anywhere right after a
\* byte that dispatched an action
AfterDispatchTakes ==
    /\ last.a.kind \in {"Execute", "CsiDispatch", "EscDispatch", "OscDispatch"}
    /\ AnywhereTakes(32..126)

\* C36: after any Execute, CsiDispatch, EscDispatch or OscDispatch a
\* following byte b in 0x20..0x7E fed in state Anywhere always yields
\* Print(b), also when the control arrived while the UTF-8 decoder was
\* waiting for continuation bytes
C36_DecoderNotPoisoned == [][AfterDispatchTakes => last'.a = PrintAct(Head(input))]_vars

\* it does when the decoder was in Ground as the control arrived
PrintAfterControlInGround ==
    [][(AfterDispatchTakes /\ parser.utf8.state = "Ground") =>
          last'.a = PrintAct(Head(input))]_vars

(***************************************************************************)
(* SpecCopy: Screen::get_selection against the renderer's highlight, for   *)
(* every selection inside a grid of distinct characters                    *)
(***************************************************************************)
\* the window of the grid, in cells
CopyCols == 3

CopyRows == 3

\* Screen::get_line: the characters of row start.y from start.x to end.x
get_line(buf, start, end) ==
    IF Len(buf) > start.y
    THEN LET length == Len(buf[start.y + 1])
             lo == Min(start.x, length)
             hi == Min(end.x, length)
         IN [i \in 1..(hi - lo) |-> buf[start.y + 1][lo + i].byte]
    ELSE <<>>

\* the rows y..last of a selection over several rows, each followed by '\n'
RECURSIVE SelectionRows(_, _, _, _)
SelectionRows(s, start, end, y) ==
    IF y > end.y THEN <<>>
    ELSE LET row == IF Len(s.buf) > y THEN s.buf[y + 1] ELSE <<>>
             hi == Min(Cols(s), Len(row))
             line ==
                IF y = start.y /\ Len(s.buf) > y
                THEN [i \in 1..(hi - start.x) |-> row[start.x + i].byte]
                ELSE IF y = end.y /\ Len(s.buf) > y
                THEN [i \in 1..Min(end.x, Len(row)) |-> row[i].byte]
                ELSE [i \in 1..Len(row) |-> row[i].byte]
         IN line \o <<10>> \o SelectionRows(s, start, end, y + 1)

\* Screen::get_selection: None, or the copied text
get_selection(s) ==
    LET start == s.selection.start
        end == s.selection.end
    IN IF start.y = end.y
       THEN IF start.x > end.x THEN [some |-> TRUE, text |-> get_line(s.buf, end, start)]
            ELSE IF start.x < end.x THEN [some |-> TRUE, text |-> get_line(s.buf, start, end)]
            ELSE [some |-> FALSE, text |-> <<>>]
       ELSE LET first == IF end.y < start.y THEN end ELSE start
                second == IF end.y < start.y THEN start ELSE end
            IN [some |-> TRUE, text |-> SelectionRows(s, first, second, first.y)]

\* a grid in which every cell holds a character of its own, as printing
\* leaves it, and a selection dragged from any cell to any cell
InitCopy ==
    /\ parser = ParserNew
    /\ \E start \in (0..(CopyCols - 1)) \X (0..(CopyRows - 1)),
          end \in (0..(CopyCols - 1)) \X (0..(CopyRows - 1)) :
          screen = [ScreenNew(CopyCols * CELL_WIDTH, CopyRows * CELL_HEIGHT) EXCEPT
                       !.buf = [y \in 1..(CopyRows + 1) |-> [x \in 1..(CopyCols + 1) |->
                                   Char(64 + (y - 1) * (CopyCols + 1) + x, DefaultAttr)]],
                       !.selection = [start |-> Pos(start[1], start[2]),
                                      end |-> Pos(end[1], end[2]),
                                      selecting |-> FALSE]]
    /\ input = <<>>
    /\ fed = 0
    /\ last = NoLast
    /\ probe = [kind |-> "copy", done |-> FALSE, copied |-> [some |-> FALSE, text |-> <<>>]]

\* Ctrl+Shift+C: the selection is copied
CopyStep ==
    /\ ~probe.done
    /\ probe' = [probe EXCEPT !.done = TRUE, !.copied = get_selection(screen)]
    /\ last' = [NoLast EXCEPT !.a.kind = "Copy"]
    /\ UNCHANGED <<parser, screen, input, fed>>

NextCopy == CopyStep

SpecCopy == InitCopy /\ [][NextCopy]_vars

\* the characters of the highlighted cells of the rows y.. in row-major order
RECURSIVE Highlighted(_, _)
Highlighted(s, y) ==
    IF y >= Len(s.buf) THEN <<>>
    ELSE LET row == s.buf[y + 1]
             cells == SelectSeq([i \in 1..Len(row) |-> i - 1],
                                LAMBDA x : is_within_selection(y, x, DrawSelection(s)))
         IN [i \in 1..Len(cells) |-> row[cells[i] + 1].byte] \o Highlighted(s, y + 1)

NotNewline(c) == c # 10

\* C37: for every selection inside the grid the characters returned by
\* get_selection are exactly the characters of the cells for which
\* is_within_selection is true after normalisation, in row-major order,
\* ignoring the newlines, regardless of the drag direction
C37_CopyMatchesHighlight ==
    probe.done => SelectSeq(probe.copied.text, NotNewline) = Highlighted(screen, 0)

\* they are for a selection on one row
CopyMatchesOnOneRow ==
    (probe.done /\ screen.selection.start.y = screen.selection.end.y) =>
        SelectSeq(probe.copied.text, NotNewline) = Highlighted(screen, 0)

(***************************************************************************)
(* SpecResize: an Expose event with a new size after cursor moves, a saved *)
(* cursor, the alternate screen and a scrolling region                     *)
(***************************************************************************)
\* the number of actions before the Expose event
MaxResize == 4

\* text, CUP to the last cell and to the first, CSI s, CSI ?1049 h and l,
\* a region that ends on the last row
ResizeMenu ==
    {PrintAct(65), Csi(<<6, 4>>, 72), Csi(<<1, 1>>, 72), Csi(<<0>>, 115),
     Csi(<<1049>>, 104), Csi(<<1049>>, 108), Csi(<<2, 6>>, 114)}

\* a smaller, a narrower, a shorter and a larger window
ResizeSizes == {<<20, 40>>, <<20, 60>>, <<40, 40>>, <<60, 80>>}

\* the Expose event; the screen before it is kept
ResizeStep ==
    /\ ~screen.panic
    /\ probe.kind # "resize"
    /\ \E sz \in ResizeSizes :
          /\ screen' = handle_expose(screen, sz[1], sz[2])
          /\ last' = [NoLast EXCEPT !.a = ExposeAct(sz[1], sz[2])]
    /\ probe' = [kind |-> "resize", pre |-> screen]
    /\ UNCHANGED <<parser, input, fed>>

ResizeBaseStep == probe.kind # "resize" /\ Step(ResizeMenu, MaxResize)

NextResize ==
    \/ ResizeBaseStep
    \/ ResizeStep

SpecResize == InitScreen(40, 60) /\ [][NextResize]_vars

\* the position indexes a cell of the grid (the spare row and column count)
OnBuf(s, p) == p.y >= 0 /\ p.y < Len(s.buf) /\ p.x >= 0 /\ p.x < Len(s.buf[1])

PositionsValid(s) ==
    /\ OnBuf(s, s.cursor.position)
    /\ OnBuf(s, s.cursor.save)
    /\ OnBuf(s, s.alt.cursor.position)
    /\ s.scrolling_region.bottom < Len(s.buf)

Resized == probe.kind = "resize" /\ ~screen.panic /\ screen.window # probe.pre.window

\* C38: after an Expose event that changes the window size the active
\* cursor, the saved cursor, the alternate-screen cursor and the scrolling
\* region all lie inside the new grid
C38_ResizeKeepsValid == (Resized /\ PositionsValid(probe.pre)) => PositionsValid(screen)

\* the row of the active cursor does, and so does a region that was never set
ResizeKeepsCursorRow ==
    (Resized /\ PositionsValid(probe.pre)) =>
        /\ screen.cursor.position.y < Len(screen.buf)
        /\ ~screen.scroll_set => screen.scrolling_region.bottom < Len(screen.buf)

(***************************************************************************)
(* SpecEof: the loop of read_tty when the child side of the PTY is closed  *)
(* and every read returns Ok(0) from then on                               *)
(***************************************************************************)
\* eof: the child side is closed
InitEof ==
    /\ parser = ParserNew
    /\ screen = ScreenNew(InitWidth, InitHeight)
    /\ input = <<>>
    /\ fed = 0
    /\ last = NoLast
    /\ probe = [kind |-> "drain", pc |-> "read", res |-> "none", ret |-> "none",
                got |-> <<>>, seen |-> <<>>, tick |-> 0, interrupted |-> FALSE,
                eof |-> FALSE]

\* the child closes its side while read_tty runs
EofHangup ==
    /\ ~probe.eof
    /\ probe.pc \in {"read", "feed"}
    /\ probe' = [probe EXCEPT !.eof = TRUE]
    /\ UNCHANGED <<parser, screen, input, fed, last>>

\* read returns Ok(0), as every read does after the hangup
EofReadZero == probe.eof /\ ReadZero

EofReadBatch == ~probe.eof /\ ReadBatch

EofReadWouldBlock == ~probe.eof /\ ReadWouldBlock

EofReadInterrupted == ~probe.eof /\ ReadInterrupted

EofReadError == ~probe.eof /\ ReadError

NextEof ==
    \/ EofHangup
    \/ EofReadZero
    \/ EofReadBatch
    \/ EofReadWouldBlock
    \/ EofReadInterrupted
    \/ EofReadError
    \/ DrainByte

\* the thread of read_tty runs on: a read that can return does, a batch is
\* fed to its end
SpecEof ==
    /\ InitEof
    /\ [][NextEof]_vars
    /\ WF_vars(DrainByte)
    /\ WF_vars(EofReadZero)

\* C39: if the PTY read returns Ok(0) on every call from some point on,
\* read_tty eventually returns
C39_EofEndsDrain == <>(probe.eof) => <>(probe.pc \in {"ok", "err"} \/ Crashed)

\* a read of Ok(0) leaves the loop at its read
EofReadsAgain ==
    [][(probe.eof /\ probe.pc = "read") =>
          (probe'.pc = "read" /\ probe'.ret = "none")]_vars

(***************************************************************************)
(* SpecHt: HT after ESC H and CSI g changed the tab stops                  *)
(***************************************************************************)
\* the number of actions of a run
MaxHt == 4

\* a window of 6 columns, narrower than the tab vector
HtWidth == 60

\* CUP to the columns 1, 3 and 6, HTS, TBC 0 and TBC 3
HtMenu ==
    {Csi(<<1, 1>>, 72), Csi(<<1, 3>>, 72), Csi(<<1, 6>>, 72),
     EscAct(<<>>, 72), Csi(<<0>>, 103), Csi(<<3>>, 103)}

\* HT; the screen before it is kept
HtStep ==
    /\ ~screen.panic
    /\ fed < MaxHt
    /\ probe.kind # "ht"
    /\ screen' = handle_action(screen, ExecuteAct(9), TRUE)
    /\ last' = [NoLast EXCEPT !.a = ExecuteAct(9)]
    /\ probe' = [kind |-> "ht", pre |-> screen]
    /\ fed' = fed + 1
    /\ UNCHANGED <<parser, input>>

HtBaseStep ==
    /\ probe.kind # "ht"
    /\ Step(HtMenu, MaxHt)

NextHt ==
    \/ HtBaseStep
    \/ HtStep

SpecHt == InitScreen(HtWidth, InitHeight) /\ [][NextHt]_vars

\* the tab stops to the right of column x, up to column hi
StopsRight(s, x, hi) == {t \in 0..(TabMax - 1) : t > x /\ t <= hi /\ s.tabs[t]}

LeastOf(S) == CHOOSE t \in S : \A u \in S : t <= u

\* C40: HT moves the cursor to the next set tab stop strictly to the right
\* or, when there is none, to the last column; it never moves x beyond cols
\* and never reads the tab vector past its end
C40_HtBounded ==
    probe.kind = "ht" =>
        LET x == probe.pre.cursor.position.x
            stops == StopsRight(probe.pre, x, Cols(probe.pre))
        IN /\ ~screen.panic
           /\ screen.cursor.position.x <= Cols(screen)
           /\ stops # {} => screen.cursor.position.x = LeastOf(stops)
           /\ stops = {} => screen.cursor.position.x \in {Cols(screen) - 1, Cols(screen)}

\* HT lands on the next stop of the vector wherever that is, and reads past
\* the end of the vector when no stop is set to the right
HtNextStopOrPanic ==
    probe.kind = "ht" =>
        LET x == probe.pre.cursor.position.x
            stops == StopsRight(probe.pre, x, TabMax - 1)
        IN IF stops # {}
           THEN ~screen.panic /\ screen.cursor.position.x = LeastOf(stops)
           ELSE screen.panic

=============================================================================
